---------------------------- MODULE Spec2Model ----------------------------
(***************************************************************************)
(* Trufo object API: the Lambda handler of lambda/initial-setup.md (the    *)
(* handler with encryption, TOTP gating, one-time access and the toggle    *)
(* endpoint) over a DynamoDB table keyed by id.                            *)
(*                                                                         *)
(* A request is a sequence of repository operations (Query, Scan, Get,     *)
(* Put, Delete); each repository operation is one atomic step, taken       *)
(* together with the synchronous code that follows it up to the next       *)
(* await.  Any repository operation may fail; the failure propagates as an *)
(* exception to the handler's catch and becomes a 500 response.            *)
(***************************************************************************)
EXTENDS Integers, Sequences, FiniteSets, TLC

(***************************************************************************)
(* Bounds of the model.                                                    *)
(***************************************************************************)
MaxObjects == 1      \* records ever created (ids and tokens are fresh)
MaxTick == 2         \* the clock takes the instants Instant(0..MaxTick)
MaxHits == 2         \* requests are started only while hitCount < MaxHits

(***************************************************************************)
(* Program constants.                                                      *)
(***************************************************************************)
MsPerHour == 3600000     \* 60 * 60 * 1000
TotpStepMs == 30000      \* Math.floor(Date.now() / 30000)
NoHit == -1              \* lastHit: null (no read yet)

(***************************************************************************)
(* The clock: Date.now() in milliseconds, sampled at the start of each     *)
(* hour and one millisecond later.                                         *)
(***************************************************************************)
Instant(k) == (k \div 2) * MsPerHour + (k % 2)

Instants == { Instant(k) : k \in 0..MaxTick }

LaterInstants(t) == { u \in Instants : u > t }

NextInstant(t) == CHOOSE u \in LaterInstants(t) : \A w \in LaterInstants(t) : u <= w

\* A later Date.now() in the same synchronous run: the same millisecond or
\* the next one.
SecondRead(t) == { u \in Instants : u >= t /\ u <= t + 1 }

(***************************************************************************)
(* JavaScript values.  A value is [t |-> typeof, s |-> its text as a       *)
(* sequence of characters]; strings are sequences of one-character         *)
(* strings, so that split, hex and JSON act on characters.                 *)
(***************************************************************************)
Str(chars) == [t |-> "string", s |-> chars]
Bool(b) == [t |-> "boolean", s |-> IF b THEN <<"t", "r", "u", "e">> ELSE <<"f", "a", "l", "s", "e">>]
Num(digits) == [t |-> "number", s |-> digits]
Null == [t |-> "null", s |-> <<"n", "u", "l", "l">>]
Undefined == [t |-> "undefined", s |-> <<>>]

JsTrue == Bool(TRUE)
JsFalse == Bool(FALSE)

Digits == {"0", "1", "2", "3", "4", "5", "6", "7", "8", "9"}

\* ToBoolean: false, 0, "", null and undefined are falsy.
Truthy(v) ==
    CASE v.t = "boolean" -> v = JsTrue
      [] v.t = "number" -> \E i \in 1..Len(v.s) : v.s[i] # "0"
      [] v.t = "string" -> v.s # <<>>
      [] OTHER -> FALSE

\* The ! operator.
Not(v) == Bool(~Truthy(v))

\* JSON.stringify of a boolean, number or string (strings of the model hold
\* no character that needs escaping).
JSONstringify(v) == IF v.t = "string" THEN <<"\"">> \o v.s \o <<"\"">> ELSE v.s

JSONThrow == [t |-> "throw", s |-> <<>>]

\* JSON.parse of a text: a literal, a number or a quoted string; anything
\* else is a SyntaxError.
JSONparse(text) ==
    IF text = JsTrue.s THEN JsTrue
    ELSE IF text = JsFalse.s THEN JsFalse
    ELSE IF text = Null.s THEN Null
    ELSE IF text # <<>> /\ \A i \in 1..Len(text) : text[i] \in Digits THEN Num(text)
    ELSE IF /\ Len(text) >= 2
            /\ text[1] = "\""
            /\ text[Len(text)] = "\""
            /\ \A i \in 2..(Len(text) - 1) : text[i] # "\""
         THEN Str(SubSeq(text, 2, Len(text) - 1))
    ELSE JSONThrow


(***************************************************************************)
(* Crypto codec.  Bytes are numbers 0..255; a character of the model's     *)
(* texts is the byte that is its position in Alphabet.  AES-256-CBC under  *)
(* the fixed key is a keyed, iv-dependent, invertible map on byte          *)
(* sequences: here the position-dependent shift by the first iv byte.      *)
(***************************************************************************)
IvBytes == 16            \* crypto.randomBytes(16)

HexDigits == <<"0", "1", "2", "3", "4", "5", "6", "7", "8", "9", "a", "b", "c", "d", "e", "f">>

Alphabet == <<"\"", "t", "r", "u", "e", "f", "a", "l", "s", "n", "h", "i", ":", "0", "1", "2", "3", "4", "5", "6", "7", "8", "9">>

IsHex(c) == \E i \in 1..16 : HexDigits[i] = c

HexVal(c) == (CHOOSE i \in 1..16 : HexDigits[i] = c) - 1

ByteOf(c) == CHOOSE i \in 1..Len(Alphabet) : Alphabet[i] = c

\* buf.toString('hex'): two digits per byte.
HexEncode(bytes) ==
    [i \in 1..(2 * Len(bytes)) |->
        IF i % 2 = 1 THEN HexDigits[(bytes[(i + 1) \div 2] \div 16) + 1]
                     ELSE HexDigits[(bytes[i \div 2] % 16) + 1]]

\* The number of leading well-formed hex pairs of a text.
RECURSIVE HexPairs(_)
HexPairs(chars) ==
    IF Len(chars) >= 2 /\ IsHex(chars[1]) /\ IsHex(chars[2])
    THEN 1 + HexPairs(SubSeq(chars, 3, Len(chars)))
    ELSE 0

\* Buffer.from(text, 'hex'): decoding stops at the first pair that is not hex.
HexDecode(chars) ==
    [i \in 1..HexPairs(chars) |-> 16 * HexVal(chars[2 * i - 1]) + HexVal(chars[2 * i])]

\* utf8 bytes of a text of the model, and back.
Utf8(chars) == [i \in 1..Len(chars) |-> ByteOf(chars[i])]

CipherBytes(plain, iv) == [i \in 1..Len(plain) |-> (plain[i] + iv[1] + i) % 256]

DecipherBytes(cipher, iv) == [i \in 1..Len(cipher) |-> (cipher[i] + 512 - iv[1] - i) % 256]

\* The random initialization vectors of the model (16 bytes each).
IVs == { [i \in 1..IvBytes |-> 10], [i \in 1..IvBytes |-> 200] }

\* The initialization vectors the requests draw.
RequestIVs == { [i \in 1..IvBytes |-> 200] }

\* encryptContent(text) with the random iv drawn: `${iv hex}:${cipher hex}`.
encryptContent(text, iv) ==
    Str(HexEncode(iv) \o <<":">> \o HexEncode(CipherBytes(Utf8(JSONstringify(text)), iv)))

\* text.split(':'): the pieces between the colons.
RECURSIVE Split(_)
Split(chars) ==
    IF \E i \in 1..Len(chars) : chars[i] = ":"
    THEN LET k == CHOOSE i \in 1..Len(chars) :
                      chars[i] = ":" /\ \A j \in 1..(i - 1) : chars[j] # ":"
         IN  <<SubSeq(chars, 1, k - 1)>> \o Split(SubSeq(chars, k + 1, Len(chars)))
    ELSE <<chars>>

\* JSON.parse inside decryptContent's try: a SyntaxError is caught and the
\* stored value returned as it is.
ParseOrRaw(text, raw) == IF JSONparse(text) = JSONThrow THEN raw ELSE JSONparse(text)

\* decryptContent(encryptedText).  Every throw (split on a non-string, an iv
\* that is not 16 bytes, a cipher text that does not decipher, a plain text
\* that is not JSON) is caught and the stored value returned as it is.
decryptContent(encryptedText) ==
    IF encryptedText.t # "string" THEN encryptedText
    ELSE
      LET parts == Split(encryptedText.s)
          ivHex == parts[1]
          encrypted == IF Len(parts) >= 2 THEN parts[2] ELSE <<>>
          iv == HexDecode(ivHex)
          cipher == HexDecode(encrypted)
          plain == DecipherBytes(cipher, iv)
      IN  IF ivHex = <<>> \/ encrypted = <<>>
          THEN ParseOrRaw(encryptedText.s, encryptedText)
          ELSE IF Len(iv) # IvBytes THEN encryptedText
          ELSE IF 2 * Len(cipher) # Len(encrypted) THEN encryptedText
          ELSE IF \E i \in 1..Len(plain) : plain[i] \notin 1..Len(Alphabet) THEN encryptedText
          ELSE ParseOrRaw([i \in 1..Len(plain) |-> Alphabet[plain[i]]], encryptedText)


(***************************************************************************)
(* TOTP.                                                                   *)
(***************************************************************************)
\* The character encodings Node's Buffer knows.  'base32' is not one of
\* them: buf.toString('base32') and Buffer.from(secret, 'base32') throw
\* ERR_UNKNOWN_ENCODING.
BufferEncodings ==
    {"utf8", "utf-8", "utf16le", "utf-16le", "ucs2", "ucs-2", "latin1", "binary",
     "ascii", "base64", "base64url", "hex"}

Threw == "<throw>"

\* Absent strings: a missing field or parameter, and null.
Undef == "<undefined>"
NullS == "<null>"

\* !x for a string-valued field or parameter.
Falsy(x) == x \in {"", Undef, NullS}

TotpSecrets == {"KA", "KB"}

TotpCodes == <<"000000", "111111", "222222", "333333">>

\* The 6-digit code of a secret at a step counter: HMAC-SHA1 over the 8-byte
\* counter, dynamic truncation, modulo 10^6, zero-padded.  The hash is a
\* fixed function of (secret, counter); this one spreads the steps over
\* TotpCodes.
Hotp(secret, counter) ==
    TotpCodes[((counter + (IF secret = "KA" THEN 0 ELSE 2)) % Len(TotpCodes)) + 1]

\* generateTOTPSecret(): crypto.randomBytes(20).toString('base32').
generateTOTPSecret(random) == IF "base32" \in BufferEncodings THEN random ELSE Threw

\* verifyTOTPToken(secret, token) at Date.now() = t: "true", "false", or
\* "throw" when Buffer.from(secret, 'base32') throws in the first round of
\* the loop.
verifyTOTPToken(secret, token, t) ==
    IF Falsy(secret) \/ Falsy(token) THEN "false"
    ELSE IF "base32" \notin BufferEncodings THEN "throw"
    ELSE IF \E i \in {-1, 0, 1} : Hotp(secret, (t \div TotpStepMs) + i) = token THEN "true"
    ELSE "false"

(***************************************************************************)
(* Requests.                                                               *)
(***************************************************************************)
Procs == {1, 2}          \* the concurrent invocations of the handler

Names == {"flag", "note"}

Emails == {"ann@x", "bob@x"}

\* parseFloat(ttlHours) of the ttlHours texts of the model.
parseFloat(text) == IF text = "0" THEN 0 ELSE 1

Body(name, type, content, ttlHours, ownerEmail, oneTimeAccess, enableMFA) ==
    [name |-> name, type |-> type, content |-> content, ttlHours |-> ttlHours,
     ownerEmail |-> ownerEmail, ownerName |-> Undef,
     oneTimeAccess |-> oneTimeAccess, enableMFA |-> enableMFA]

\* POST /objects bodies with every required field.
ValidBodies ==
    { Body("flag", "boolean", JsTrue, "1", "ann@x", FALSE, FALSE),
      Body("flag", "toggle", JsFalse, "1", Undef, FALSE, FALSE),
      Body("flag", "toggle", JsTrue, "1", "bob@x", TRUE, FALSE),
      Body("note", "string", Str(<<"h", "i">>), "1", "ann@x", TRUE, FALSE),
      Body("flag", "boolean", JsFalse, "0", "ann@x", FALSE, FALSE),
      Body("note", "string", Num(<<"0">>), "0", Undef, FALSE, FALSE),
      Body("flag", "boolean", JsTrue, "0", "bob@x", FALSE, TRUE),
      Body("flag", "boolean", JsTrue, "1", "bob@x", FALSE, TRUE) }

\* Bodies with a required field missing, null or empty.
InvalidBodies ==
    { Body(Undef, "boolean", JsTrue, "1", Undef, FALSE, FALSE),
      Body("", "boolean", JsTrue, "1", Undef, FALSE, FALSE),
      Body("flag", NullS, JsTrue, "1", Undef, FALSE, FALSE),
      Body("flag", "", JsTrue, "1", Undef, FALSE, FALSE),
      Body("flag", "boolean", Undefined, "1", Undef, FALSE, FALSE),
      Body("flag", "boolean", Null, "1", Undef, FALSE, FALSE),
      Body("flag", "boolean", JsFalse, Undef, Undef, FALSE, FALSE),
      Body("flag", "boolean", JsFalse, NullS, Undef, FALSE, FALSE) }

Bodies == ValidBodies \cup InvalidBodies

NoBody == Body(Undef, Undef, Undefined, Undef, Undef, FALSE, FALSE)

\* PUT /objects patches: the content edit the pages send (plain, not
\* encrypted), and direct edits of other fields.
Patches ==
    { [content |-> JsTrue],
      [totpSecret |-> "KA"],
      [type |-> "string"],
      [hitCount |-> 0] }

NoPatch == [x \in {} |-> 0]

\* Ids and tokens are numbered in the order of creation: the id
\* `obj_${Date.now()}_${random}` and the 16 random bytes of the token are
\* fresh.  0 stands for an id or token that is absent from the request,
\* MaxObjects + 1 for one that was never issued.
ReqIds == 0..(MaxObjects + 1)

ReqTokens == 0..(MaxObjects + 1)

\* The request's totpCode parameter.
ReqCodes == {Undef, "000000", "222222"}

IdleReq ==
    [op |-> "none", pc |-> "idle", name |-> Undef, token |-> 0, code |-> Undef,
     id |-> 0, patch |-> NoPatch, body |-> NoBody,
     obj |-> {}, item |-> {}, tCheck |-> 0, mfa |-> "none",
     status |-> 0, content |-> Undefined, hits |-> 0,
     requiresTOTP |-> FALSE, totpQR |-> Undef, failed |-> FALSE]

VARIABLES
    table,      \* the DynamoDB table: a set of items, at most one per id
    now,        \* Date.now()
    nextId,     \* the number of the next id and token
    reqs,       \* per invocation: the request, its position and its response
    lastRead    \* history: the response of the last completed request, when
                \* it was a 200 of a fetch: {[id, content, hits]}, else {}

vars == <<table, now, nextId, reqs, lastRead>>


(***************************************************************************)
(* The repository: DynamoDB commands on the table.                         *)
(***************************************************************************)
PutCommand(T, item) == { r \in T : r.id # item.id } \cup {item}

DeleteCommand(T, id) == { r \in T : r.id # id }

GetCommand(T, id) == { r \in T : r.id = id }

QueryByName(T, name) == { r \in T : r.name = name }

QueryByOwner(T, email) == { r \in T : r.ownerEmail = email }

ScanByToken(T, token) == { r \in T : r.token = token }

(***************************************************************************)
(* Responses.                                                              *)
(***************************************************************************)
Free(p) == reqs[p].pc = "idle"

Respond(r, status) == [r EXCEPT !.pc = "done", !.status = status]

RespondContent(r, content, hits) ==
    [r EXCEPT !.pc = "done", !.status = 200, !.content = content, !.hits = hits]

\* A repository command that throws: the handler's catch answers 500.
StorageFailure(r) ==
    [r EXCEPT !.pc = "done", !.status = 500, !.failed = TRUE,
              !.content = Undefined, !.item = {}]

\* The object of the request: the item its lookup found.
Object(r) == CHOOSE o \in r.obj : TRUE

\* The item of the request's next PutCommand.
Item(r) == CHOOSE i \in r.item : TRUE

IsFetch(r) == r.op \in {"getObject", "getObjectByToken"}

\* The history of responses after a step that leaves the invocation at r.
Noted(r) ==
    IF r.pc # "done" THEN lastRead
    ELSE IF IsFetch(r) /\ r.status = 200
    THEN {[id |-> Object(r).id, content |-> r.content, hits |-> r.hits]}
    ELSE {}

\* Requests are started only while the hit counters are below MaxHits.
HitsBelowBound == \A r \in table : r.hitCount < MaxHits

TypeOK ==
    /\ now \in Instants
    /\ nextId \in 1..(MaxObjects + 1)
    /\ \A r \in table : r.id \in 1..(nextId - 1)
    /\ \A r1, r2 \in table : r1.id = r2.id => r1 = r2
    /\ \A p \in Procs : reqs[p].pc \in
          {"idle", "expDel", "putHit", "otDel", "putToggle", "togglePut", "updPut", "sweep", "done"}

Init ==
    /\ table = {}
    /\ now = 0
    /\ nextId = 1
    /\ reqs = [p \in Procs |-> IdleReq]
    /\ lastRead = {}

\* Time passes.
Tick ==
    /\ LaterInstants(now) # {}
    /\ now' = NextInstant(now)
    /\ UNCHANGED <<table, nextId, reqs, lastRead>>

(***************************************************************************)
(* POST /objects                                                           *)
(***************************************************************************)
\* A fault: the required fields tested for falsiness, which rejects a
\* ttlHours of 0 and a content of false or 0.
MissingFieldsFalsy(body) ==
    \/ Falsy(body.name)
    \/ Falsy(body.type)
    \/ ~Truthy(body.content)
    \/ body.ttlHours \in {Undef, NullS, "0"}

MissingFields(body) ==
    \/ Falsy(body.name)
    \/ Falsy(body.type)
    \/ body.content = Undefined
    \/ body.content = Null
    \/ body.ttlHours = Undef
    \/ body.ttlHours = NullS

\* A fault: a ttlHours of 0 taken for an absent one and defaulted to an hour.
NewItemDefaultTtl(body, id, token, tTtl, tCreated, iv, secret) ==
    [id |-> id,
     name |-> body.name,
     type |-> body.type,
     content |-> encryptContent(body.content, iv),
     ttl |-> tTtl + (IF parseFloat(body.ttlHours) = 0 THEN 1 ELSE parseFloat(body.ttlHours))
                    * MsPerHour,
     token |-> token,
     ownerEmail |-> IF Falsy(body.ownerEmail) THEN "anonymous" ELSE body.ownerEmail,
     ownerName |-> IF Falsy(body.ownerName) THEN "Anonymous User" ELSE body.ownerName,
     hitCount |-> 0,
     createdAt |-> tCreated,
     lastHit |-> NoHit,
     oneTimeAccess |-> body.oneTimeAccess,
     totpSecret |-> IF body.enableMFA THEN secret ELSE NullS]

\* The item createObject builds: ttl from the Date.now() of line 260,
\* createdAt from the Date.now() of line 275.
NewItem(body, id, token, tTtl, tCreated, iv, secret) ==
    [id |-> id,
     name |-> body.name,
     type |-> body.type,
     content |-> encryptContent(body.content, iv),
     ttl |-> tTtl + parseFloat(body.ttlHours) * MsPerHour,
     token |-> token,
     ownerEmail |-> IF Falsy(body.ownerEmail) THEN "anonymous" ELSE body.ownerEmail,
     ownerName |-> IF Falsy(body.ownerName) THEN "Anonymous User" ELSE body.ownerName,
     hitCount |-> 0,
     createdAt |-> tCreated,
     lastHit |-> NoHit,
     oneTimeAccess |-> body.oneTimeAccess,
     totpSecret |-> IF body.enableMFA THEN secret ELSE NullS]

createObject(p, body, iv, random, tCreated, ok) ==
    /\ Free(p)
    /\ LET r == [IdleReq EXCEPT !.op = "createObject", !.body = body, !.tCheck = now]
           secret == generateTOTPSecret(random)
           item == NewItem(body, nextId, nextId, now, tCreated, iv, secret)
       IN  IF MissingFields(body)
           THEN /\ reqs' = [reqs EXCEPT ![p] = Respond(r, 400)]
                /\ UNCHANGED <<table, now, nextId>>
           ELSE /\ nextId <= MaxObjects
                /\ now' = tCreated
                /\ IF body.enableMFA /\ secret = Threw
                   THEN /\ reqs' = [reqs EXCEPT ![p] = Respond(r, 500)]
                        /\ UNCHANGED <<table, nextId>>
                   ELSE IF ok
                   THEN /\ table' = PutCommand(table, item)
                        /\ nextId' = nextId + 1
                        /\ reqs' = [reqs EXCEPT ![p] = Respond([r EXCEPT !.obj = {item}], 201)]
                   ELSE /\ reqs' = [reqs EXCEPT ![p] = StorageFailure(r)]
                        /\ UNCHANGED <<table, nextId>>
    /\ lastRead' = Noted(reqs'[p])


(***************************************************************************)
(* GET /objects and GET /object: the fetch.                                *)
(***************************************************************************)
\* The item the fetch writes first: the looked-up object with the hit
\* counted.
HitItem(object, t) == [object EXCEPT !.hitCount = object.hitCount + 1, !.lastHit = t]

\* A fault: the toggle write re-encrypts the value without negating it.
ToggledItemSame(object, iv, t) ==
    [object EXCEPT !.content = encryptContent(decryptContent(object.content), iv),
                   !.hitCount = object.hitCount + 1,
                   !.lastHit = t]

\* The item a toggle write stores: the looked-up object with the content
\* negated and the hit counted.
ToggledItem(object, iv, t) ==
    [object EXCEPT !.content = encryptContent(Not(decryptContent(object.content)), iv),
                   !.hitCount = object.hitCount + 1,
                   !.lastHit = t]

\* `otpauth://totp/Trufo:${name}?secret=${totpSecret}&issuer=Trufo`
\* (the secret it carries stands for the URI).
TotpQR(object) == IF object.hitCount = 0 THEN object.totpSecret ELSE Undef

\* A fault: the TOTP check placed before the expiry check.
AfterLookupTotpFirst(r, matches) ==
    IF matches = {} THEN {Respond(r, 404)}
    ELSE
      { IF ~Falsy(object.totpSecret) /\ Falsy(r.code)
        THEN [Respond(r, 403) EXCEPT !.obj = {object}, !.mfa = "required",
                                     !.requiresTOTP = TRUE, !.totpQR = TotpQR(object)]
        ELSE IF ~Falsy(object.totpSecret)
                /\ verifyTOTPToken(object.totpSecret, r.code, now) = "throw"
        THEN [Respond(r, 500) EXCEPT !.obj = {object}, !.mfa = "throw"]
        ELSE IF ~Falsy(object.totpSecret)
                /\ verifyTOTPToken(object.totpSecret, r.code, now) = "false"
        THEN [Respond(r, 403) EXCEPT !.obj = {object}, !.mfa = "invalid"]
        ELSE IF object.ttl <= now
        THEN [r EXCEPT !.pc = "expDel", !.obj = {object}]
        ELSE [r EXCEPT !.pc = "putHit", !.obj = {object},
                       !.item = {HitItem(object, now)},
                       !.mfa = IF Falsy(object.totpSecret) THEN "none" ELSE "verified"]
        : object \in matches }

\* The fetch from the lookup's result to its first write: not found, the
\* expiry check, the TOTP check, the hit item.
AfterLookup(r, matches) ==
    IF matches = {} THEN {Respond(r, 404)}
    ELSE
      { IF object.ttl <= now
        THEN [r EXCEPT !.pc = "expDel", !.obj = {object}]
        ELSE IF ~Falsy(object.totpSecret) /\ Falsy(r.code)
        THEN [Respond(r, 403) EXCEPT !.obj = {object}, !.mfa = "required",
                                     !.requiresTOTP = TRUE, !.totpQR = TotpQR(object)]
        ELSE IF ~Falsy(object.totpSecret)
                /\ verifyTOTPToken(object.totpSecret, r.code, now) = "throw"
        THEN [Respond(r, 500) EXCEPT !.obj = {object}, !.mfa = "throw"]
        ELSE IF ~Falsy(object.totpSecret)
                /\ verifyTOTPToken(object.totpSecret, r.code, now) = "false"
        THEN [Respond(r, 403) EXCEPT !.obj = {object}, !.mfa = "invalid"]
        ELSE [r EXCEPT !.pc = "putHit", !.obj = {object},
                       !.item = {HitItem(object, now)},
                       !.mfa = IF Falsy(object.totpSecret) THEN "none" ELSE "verified"]
        : object \in matches }

\* A fault: the query by name without the token filter.
getObjectAnyToken(p, name, token, code, ok) ==
    /\ Free(p)
    /\ HitsBelowBound
    /\ LET r == [IdleReq EXCEPT !.op = "getObject", !.name = name, !.token = token,
                                !.code = code, !.tCheck = now]
           matches == QueryByName(table, name)
       IN  IF Falsy(name) \/ token = 0
           THEN reqs' = [reqs EXCEPT ![p] = Respond(r, 400)]
           ELSE IF ~ok
           THEN reqs' = [reqs EXCEPT ![p] = StorageFailure(r)]
           ELSE \E q \in AfterLookup(r, matches) : reqs' = [reqs EXCEPT ![p] = q]
    /\ lastRead' = Noted(reqs'[p])
    /\ UNCHANGED <<table, now, nextId>>

getObject(p, name, token, code, ok) ==
    /\ Free(p)
    /\ HitsBelowBound
    /\ LET r == [IdleReq EXCEPT !.op = "getObject", !.name = name, !.token = token,
                                !.code = code, !.tCheck = now]
           matches == { o \in QueryByName(table, name) : o.token = token }
       IN  IF Falsy(name) \/ token = 0
           THEN reqs' = [reqs EXCEPT ![p] = Respond(r, 400)]
           ELSE IF ~ok
           THEN reqs' = [reqs EXCEPT ![p] = StorageFailure(r)]
           ELSE \E q \in AfterLookup(r, matches) : reqs' = [reqs EXCEPT ![p] = q]
    /\ lastRead' = Noted(reqs'[p])
    /\ UNCHANGED <<table, now, nextId>>

getObjectByToken(p, token, code, ok) ==
    /\ Free(p)
    /\ HitsBelowBound
    /\ LET r == [IdleReq EXCEPT !.op = "getObjectByToken", !.token = token,
                                !.code = code, !.tCheck = now]
           matches == ScanByToken(table, token)
       IN  IF token = 0
           THEN reqs' = [reqs EXCEPT ![p] = Respond(r, 400)]
           ELSE IF ~ok
           THEN reqs' = [reqs EXCEPT ![p] = StorageFailure(r)]
           ELSE \E q \in AfterLookup(r, matches) : reqs' = [reqs EXCEPT ![p] = q]
    /\ lastRead' = Noted(reqs'[p])
    /\ UNCHANGED <<table, now, nextId>>

\* A fault: 410 for an expired object without deleting it.
ExpiredKept(p, ok) ==
    /\ reqs[p].pc = "expDel"
    /\ reqs' = [reqs EXCEPT ![p] = Respond(@, 410)]
    /\ table' = table
    /\ lastRead' = Noted(reqs'[p])
    /\ UNCHANGED <<now, nextId>>

\* The delete of an expired object, then 410 (fetch and toggle).
ExpiredDelete(p, ok) ==
    /\ reqs[p].pc = "expDel"
    /\ IF ok
       THEN /\ table' = DeleteCommand(table, Object(reqs[p]).id)
            /\ reqs' = [reqs EXCEPT ![p] = Respond(@, 410)]
       ELSE /\ reqs' = [reqs EXCEPT ![p] = StorageFailure(@)]
            /\ table' = table
    /\ lastRead' = Noted(reqs'[p])
    /\ UNCHANGED <<now, nextId>>

\* The hit-count write of a fetch, then the decryption and what follows it
\* up to the next command.
PutHit(p, iv, ok) ==
    /\ reqs[p].pc = "putHit"
    /\ LET r == reqs[p]
           object == Object(r)
           decryptedContent == decryptContent(object.content)
       IN  IF ~ok
           THEN /\ reqs' = [reqs EXCEPT ![p] = StorageFailure(r)]
                /\ table' = table
           ELSE /\ table' = PutCommand(table, Item(r))
                /\ reqs' = [reqs EXCEPT ![p] =
                      IF object.oneTimeAccess
                      THEN [r EXCEPT !.pc = "otDel", !.item = {}, !.content = decryptedContent]
                      ELSE IF object.type = "toggle"
                      THEN [r EXCEPT !.pc = "putToggle", !.content = decryptedContent,
                                     !.item = {ToggledItem(object, iv, now)}]
                      ELSE RespondContent([r EXCEPT !.item = {}], decryptedContent,
                                          object.hitCount + 1)]
    /\ lastRead' = Noted(reqs'[p])
    /\ UNCHANGED <<now, nextId>>

\* A fault: the one-time object served without deleting it.
OneTimeKept(p, ok) ==
    /\ reqs[p].pc = "otDel"
    /\ reqs' = [reqs EXCEPT ![p] =
          RespondContent(@, @.content, Object(@).hitCount + 1)]
    /\ table' = table
    /\ lastRead' = Noted(reqs'[p])
    /\ UNCHANGED <<now, nextId>>

\* The delete of a one-time object after its read, then 200.
OneTimeDelete(p, ok) ==
    /\ reqs[p].pc = "otDel"
    /\ IF ok
       THEN /\ table' = DeleteCommand(table, Object(reqs[p]).id)
            /\ reqs' = [reqs EXCEPT ![p] =
                  RespondContent(@, @.content, Object(@).hitCount + 1)]
       ELSE /\ reqs' = [reqs EXCEPT ![p] = StorageFailure(@)]
            /\ table' = table
    /\ lastRead' = Noted(reqs'[p])
    /\ UNCHANGED <<now, nextId>>

\* A variant: the second write as a conditional put keyed on the record
\* the first write stored; when another request has written in between the
\* condition fails and the handler's catch answers 500.
PutToggleConditional(p, ok) ==
    /\ reqs[p].pc = "putToggle"
    /\ IF ~ok
       THEN /\ reqs' = [reqs EXCEPT ![p] = StorageFailure(@)]
            /\ table' = table
       ELSE IF \E x \in GetCommand(table, Object(reqs[p]).id) :
                  /\ x.hitCount = Object(reqs[p]).hitCount + 1
                  /\ x.content = Object(reqs[p]).content
       THEN /\ table' = PutCommand(table, Item(reqs[p]))
            /\ reqs' = [reqs EXCEPT ![p] =
                  RespondContent([@ EXCEPT !.item = {}], @.content, Object(@).hitCount + 1)]
       ELSE /\ reqs' = [reqs EXCEPT ![p] = Respond([@ EXCEPT !.item = {}], 500)]
            /\ table' = table
    /\ lastRead' = Noted(reqs'[p])
    /\ UNCHANGED <<now, nextId>>

\* The second write of a fetch of a toggle object, then 200.
PutToggle(p, ok) ==
    /\ reqs[p].pc = "putToggle"
    /\ IF ok
       THEN /\ table' = PutCommand(table, Item(reqs[p]))
            /\ reqs' = [reqs EXCEPT ![p] =
                  RespondContent([@ EXCEPT !.item = {}], @.content, Object(@).hitCount + 1)]
       ELSE /\ reqs' = [reqs EXCEPT ![p] = StorageFailure(@)]
            /\ table' = table
    /\ lastRead' = Noted(reqs'[p])
    /\ UNCHANGED <<now, nextId>>


(***************************************************************************)
(* POST /toggle                                                            *)
(***************************************************************************)
\* A fault: POST /toggle without the type check.
toggleAnyObject(p, name, token, iv, ok) ==
    /\ Free(p)
    /\ HitsBelowBound
    /\ LET r == [IdleReq EXCEPT !.op = "toggleBooleanObject", !.name = name,
                                !.token = token, !.tCheck = now]
           matches == { o \in QueryByName(table, name) : o.token = token }
       IN  IF Falsy(name) \/ token = 0
           THEN reqs' = [reqs EXCEPT ![p] = Respond(r, 400)]
           ELSE IF ~ok
           THEN reqs' = [reqs EXCEPT ![p] = StorageFailure(r)]
           ELSE IF matches = {}
           THEN reqs' = [reqs EXCEPT ![p] = Respond(r, 404)]
           ELSE \E object \in matches :
                  reqs' = [reqs EXCEPT ![p] =
                     IF object.ttl <= now
                     THEN [r EXCEPT !.pc = "expDel", !.obj = {object}]
                     ELSE [r EXCEPT !.pc = "togglePut", !.obj = {object},
                                    !.item = {ToggledItem(object, iv, now)},
                                    !.content = Not(decryptContent(object.content))]]
    /\ lastRead' = Noted(reqs'[p])
    /\ UNCHANGED <<table, now, nextId>>

\* A variant: POST /toggle with the TOTP gate of the fetch (a code is never
\* part of the toggle request).
toggleGatedObject(p, name, token, iv, ok) ==
    /\ Free(p)
    /\ HitsBelowBound
    /\ LET r == [IdleReq EXCEPT !.op = "toggleBooleanObject", !.name = name,
                                !.token = token, !.tCheck = now]
           matches == { o \in QueryByName(table, name) : o.token = token }
       IN  IF Falsy(name) \/ token = 0
           THEN reqs' = [reqs EXCEPT ![p] = Respond(r, 400)]
           ELSE IF ~ok
           THEN reqs' = [reqs EXCEPT ![p] = StorageFailure(r)]
           ELSE IF matches = {}
           THEN reqs' = [reqs EXCEPT ![p] = Respond(r, 404)]
           ELSE \E object \in matches :
                  reqs' = [reqs EXCEPT ![p] =
                     IF object.ttl <= now
                     THEN [r EXCEPT !.pc = "expDel", !.obj = {object}]
                     ELSE IF ~Falsy(object.totpSecret)
                     THEN [Respond(r, 403) EXCEPT !.obj = {object}, !.mfa = "required",
                                                  !.requiresTOTP = TRUE]
                     ELSE IF object.type # "boolean"
                     THEN [Respond(r, 400) EXCEPT !.obj = {object}]
                     ELSE [r EXCEPT !.pc = "togglePut", !.obj = {object},
                                    !.item = {ToggledItem(object, iv, now)},
                                    !.content = Not(decryptContent(object.content))]]
    /\ lastRead' = Noted(reqs'[p])
    /\ UNCHANGED <<table, now, nextId>>

toggleBooleanObject(p, name, token, iv, ok) ==
    /\ Free(p)
    /\ HitsBelowBound
    /\ LET r == [IdleReq EXCEPT !.op = "toggleBooleanObject", !.name = name,
                                !.token = token, !.tCheck = now]
           matches == { o \in QueryByName(table, name) : o.token = token }
       IN  IF Falsy(name) \/ token = 0
           THEN reqs' = [reqs EXCEPT ![p] = Respond(r, 400)]
           ELSE IF ~ok
           THEN reqs' = [reqs EXCEPT ![p] = StorageFailure(r)]
           ELSE IF matches = {}
           THEN reqs' = [reqs EXCEPT ![p] = Respond(r, 404)]
           ELSE \E object \in matches :
                  reqs' = [reqs EXCEPT ![p] =
                     IF object.ttl <= now
                     THEN [r EXCEPT !.pc = "expDel", !.obj = {object}]
                     ELSE IF object.type # "boolean"
                     THEN [Respond(r, 400) EXCEPT !.obj = {object}]
                     ELSE [r EXCEPT !.pc = "togglePut", !.obj = {object},
                                    !.item = {ToggledItem(object, iv, now)},
                                    !.content = Not(decryptContent(object.content))]]
    /\ lastRead' = Noted(reqs'[p])
    /\ UNCHANGED <<table, now, nextId>>

\* A fault: POST /toggle answers with the value before the toggle, as the
\* fetch of a toggle object does.
TogglePutOldValue(p, ok) ==
    /\ reqs[p].pc = "togglePut"
    /\ IF ok
       THEN /\ table' = PutCommand(table, Item(reqs[p]))
            /\ reqs' = [reqs EXCEPT ![p] =
                  RespondContent([@ EXCEPT !.item = {}], decryptContent(Object(@).content),
                                 Object(@).hitCount + 1)]
       ELSE /\ reqs' = [reqs EXCEPT ![p] = StorageFailure(@)]
            /\ table' = table
    /\ lastRead' = Noted(reqs'[p])
    /\ UNCHANGED <<now, nextId>>

\* The write of POST /toggle, then 200 with the new value.
TogglePut(p, ok) ==
    /\ reqs[p].pc = "togglePut"
    /\ IF ok
       THEN /\ table' = PutCommand(table, Item(reqs[p]))
            /\ reqs' = [reqs EXCEPT ![p] =
                  RespondContent([@ EXCEPT !.item = {}], @.content, Object(@).hitCount + 1)]
       ELSE /\ reqs' = [reqs EXCEPT ![p] = StorageFailure(@)]
            /\ table' = table
    /\ lastRead' = Noted(reqs'[p])
    /\ UNCHANGED <<now, nextId>>

(***************************************************************************)
(* PUT /objects, DELETE /objects, GET /user-objects                        *)
(***************************************************************************)
\* A fault: the spread in the other order, { ...updates, ...item }.
MergeItemLast(item, updates) == item

\* { ...currentResult.Item, ...updates }
Merge(item, updates) ==
    [f \in DOMAIN item |-> IF f \in DOMAIN updates THEN updates[f] ELSE item[f]]

updateObject(p, id, updates, ok) ==
    /\ Free(p)
    /\ LET r == [IdleReq EXCEPT !.op = "updateObject", !.id = id, !.patch = updates,
                                !.tCheck = now]
           found == GetCommand(table, id)
       IN  reqs' = [reqs EXCEPT ![p] =
              IF id = 0 THEN Respond(r, 400)
              ELSE IF ~ok THEN StorageFailure(r)
              ELSE IF found = {} THEN Respond(r, 404)
              ELSE [r EXCEPT !.pc = "updPut", !.obj = found,
                             !.item = { Merge(o, updates) : o \in found }]]
    /\ lastRead' = Noted(reqs'[p])
    /\ UNCHANGED <<table, now, nextId>>

\* The write of PUT /objects, then 200 with the merged item.
UpdatePut(p, ok) ==
    /\ reqs[p].pc = "updPut"
    /\ IF ok
       THEN /\ table' = PutCommand(table, Item(reqs[p]))
            /\ reqs' = [reqs EXCEPT ![p] = Respond(@, 200)]
       ELSE /\ reqs' = [reqs EXCEPT ![p] = StorageFailure(@)]
            /\ table' = table
    /\ lastRead' = Noted(reqs'[p])
    /\ UNCHANGED <<now, nextId>>

\* A variant: Delete that reports 404 for an id without a record.
deleteObjectStrict(p, id, ok) ==
    /\ Free(p)
    /\ LET r == [IdleReq EXCEPT !.op = "deleteObject", !.id = id, !.tCheck = now]
       IN  IF id = 0
           THEN /\ reqs' = [reqs EXCEPT ![p] = Respond(r, 400)]
                /\ table' = table
           ELSE IF ok
           THEN /\ table' = DeleteCommand(table, id)
                /\ reqs' = [reqs EXCEPT ![p] =
                      Respond(r, IF GetCommand(table, id) = {} THEN 404 ELSE 200)]
           ELSE /\ reqs' = [reqs EXCEPT ![p] = StorageFailure(r)]
                /\ table' = table
    /\ lastRead' = Noted(reqs'[p])
    /\ UNCHANGED <<now, nextId>>

deleteObject(p, id, ok) ==
    /\ Free(p)
    /\ LET r == [IdleReq EXCEPT !.op = "deleteObject", !.id = id, !.tCheck = now]
       IN  IF id = 0
           THEN /\ reqs' = [reqs EXCEPT ![p] = Respond(r, 400)]
                /\ table' = table
           ELSE IF ok
           THEN /\ table' = DeleteCommand(table, id)
                /\ reqs' = [reqs EXCEPT ![p] = Respond(r, 200)]
           ELSE /\ reqs' = [reqs EXCEPT ![p] = StorageFailure(r)]
                /\ table' = table
    /\ lastRead' = Noted(reqs'[p])
    /\ UNCHANGED <<now, nextId>>

\* A variant: the listing without the expired items, the filter the client
\* library applies afterwards.
getUserActiveObjects(p, email, ok) ==
    /\ Free(p)
    /\ LET r == [IdleReq EXCEPT !.op = "getUserObjects", !.name = email, !.tCheck = now]
       IN  reqs' = [reqs EXCEPT ![p] =
              IF Falsy(email) THEN Respond(r, 400)
              ELSE IF ~ok THEN StorageFailure(r)
              ELSE [Respond(r, 200) EXCEPT
                       !.obj = { o \in QueryByOwner(table, email) : o.ttl > now }]]
    /\ lastRead' = Noted(reqs'[p])
    /\ UNCHANGED <<table, now, nextId>>

\* GET /user-objects: the items of an owner, as stored.
getUserObjects(p, email, ok) ==
    /\ Free(p)
    /\ LET r == [IdleReq EXCEPT !.op = "getUserObjects", !.name = email, !.tCheck = now]
       IN  reqs' = [reqs EXCEPT ![p] =
              IF Falsy(email) THEN Respond(r, 400)
              ELSE IF ~ok THEN StorageFailure(r)
              ELSE [Respond(r, 200) EXCEPT !.obj = QueryByOwner(table, email)]]
    /\ lastRead' = Noted(reqs'[p])
    /\ UNCHANGED <<table, now, nextId>>

(***************************************************************************)
(* The handler: one invocation's next step.                                *)
(***************************************************************************)
Begin(p) ==
    \/ \E body \in Bodies, iv \in RequestIVs, random \in TotpSecrets,
          tCreated \in SecondRead(now), ok \in BOOLEAN :
          createObject(p, body, iv, random, tCreated, ok)
    \/ \E name \in Names \cup {Undef}, token \in ReqTokens, code \in ReqCodes, ok \in BOOLEAN :
          getObject(p, name, token, code, ok)
    \/ \E token \in ReqTokens, code \in ReqCodes, ok \in BOOLEAN :
          getObjectByToken(p, token, code, ok)
    \/ \E name \in Names \cup {Undef}, token \in ReqTokens, iv \in RequestIVs, ok \in BOOLEAN :
          toggleBooleanObject(p, name, token, iv, ok)
    \/ \E id \in ReqIds, updates \in Patches, ok \in BOOLEAN :
          updateObject(p, id, updates, ok)
    \/ \E id \in ReqIds, ok \in BOOLEAN : deleteObject(p, id, ok)
    \/ \E email \in Emails \cup {"anonymous", Undef}, ok \in BOOLEAN :
          getUserObjects(p, email, ok)

\* The response is returned and the invocation ends.
Return(p) ==
    /\ reqs[p].pc = "done"
    /\ reqs' = [reqs EXCEPT ![p] = IdleReq]
    /\ UNCHANGED <<table, now, nextId, lastRead>>

Continue(p) ==
    \/ Return(p)
    \/ \E ok \in BOOLEAN : ExpiredDelete(p, ok)
    \/ \E iv \in RequestIVs, ok \in BOOLEAN : PutHit(p, iv, ok)
    \/ \E ok \in BOOLEAN : OneTimeDelete(p, ok)
    \/ \E ok \in BOOLEAN : PutToggle(p, ok)
    \/ \E ok \in BOOLEAN : TogglePut(p, ok)
    \/ \E ok \in BOOLEAN : UpdatePut(p, ok)

(***************************************************************************)
(* GET /admin/objects and POST /admin/cleanup of lambda/trufo-api.js: the  *)
(* administrative listing and sweep of the same table.                     *)
(***************************************************************************)
\* process.env.ADMIN_TOKEN
ADMIN_TOKEN == "admin-token"

AdminTokens == {ADMIN_TOKEN, "guess", Undef}

\* A fault: a request that supplies no token is let through.
adminGetAllObjectsOpen(p, adminToken, ok) ==
    /\ Free(p)
    /\ LET r == [IdleReq EXCEPT !.op = "adminGetAllObjects", !.name = adminToken,
                                !.tCheck = now]
       IN  reqs' = [reqs EXCEPT ![p] =
              IF adminToken \notin {ADMIN_TOKEN, Undef} THEN Respond(r, 403)
              ELSE IF ~ok THEN StorageFailure(r)
              ELSE [Respond(r, 200) EXCEPT !.obj = table]]
    /\ lastRead' = Noted(reqs'[p])
    /\ UNCHANGED <<table, now, nextId>>

\* GET /admin/objects: the token check, then the scan of the whole table;
\* the request keeps the admin token in name and the objects returned in
\* obj.
adminGetAllObjects(p, adminToken, ok) ==
    /\ Free(p)
    /\ LET r == [IdleReq EXCEPT !.op = "adminGetAllObjects", !.name = adminToken,
                                !.tCheck = now]
       IN  reqs' = [reqs EXCEPT ![p] =
              IF adminToken # ADMIN_TOKEN THEN Respond(r, 403)
              ELSE IF ~ok THEN StorageFailure(r)
              ELSE [Respond(r, 200) EXCEPT !.obj = table]]
    /\ lastRead' = Noted(reqs'[p])
    /\ UNCHANGED <<table, now, nextId>>

\* A fault: the sweep keeps the records that expire at the very instant of
\* the sweep.
adminCleanupStrict(p, adminToken, ok) ==
    /\ Free(p)
    /\ LET r == [IdleReq EXCEPT !.op = "adminCleanup", !.name = adminToken, !.tCheck = now]
           expiredObjects == { o \in table : o.ttl < now }
       IN  reqs' = [reqs EXCEPT ![p] =
              IF adminToken # ADMIN_TOKEN THEN Respond(r, 403)
              ELSE IF ~ok THEN StorageFailure(r)
              ELSE IF expiredObjects = {} THEN Respond(r, 200)
              ELSE [r EXCEPT !.pc = "sweep", !.obj = expiredObjects,
                             !.item = expiredObjects]]
    /\ lastRead' = Noted(reqs'[p])
    /\ UNCHANGED <<table, now, nextId>>

\* The token check, the clock reading and the scan of the sweep; the
\* request keeps the admin token in name, the expired objects in obj and
\* those still to delete in item.
adminCleanup(p, adminToken, ok) ==
    /\ Free(p)
    /\ LET r == [IdleReq EXCEPT !.op = "adminCleanup", !.name = adminToken, !.tCheck = now]
           expiredObjects == { o \in table : o.ttl <= now }
       IN  reqs' = [reqs EXCEPT ![p] =
              IF adminToken # ADMIN_TOKEN THEN Respond(r, 403)
              ELSE IF ~ok THEN StorageFailure(r)
              ELSE IF expiredObjects = {} THEN Respond(r, 200)
              ELSE [r EXCEPT !.pc = "sweep", !.obj = expiredObjects,
                             !.item = expiredObjects]]
    /\ lastRead' = Noted(reqs'[p])
    /\ UNCHANGED <<table, now, nextId>>

\* One round of the sweep's loop: the delete of the next expired object,
\* and after the last one the 200 with deletedCount (kept in hits).
SweepDelete(p, ok) ==
    /\ reqs[p].pc = "sweep"
    /\ \E o \in reqs[p].item :
          IF ok
          THEN /\ table' = DeleteCommand(table, o.id)
               /\ reqs' = [reqs EXCEPT ![p] =
                     IF reqs[p].item = {o}
                     THEN [Respond(reqs[p], 200) EXCEPT
                              !.item = {}, !.hits = Cardinality(reqs[p].obj)]
                     ELSE [reqs[p] EXCEPT !.item = reqs[p].item \ {o}]]
          ELSE /\ reqs' = [reqs EXCEPT ![p] = StorageFailure(@)]
               /\ table' = table
    /\ lastRead' = Noted(reqs'[p])
    /\ UNCHANGED <<now, nextId>>

\* Requests that do not overlap: one invocation at a time.
Next == Tick \/ Begin(1) \/ Continue(1)

Spec == Init /\ [][Next]_vars

(***************************************************************************)
(* Two records in the table: lookups by name and token, deletes and the    *)
(* sweep, one request at a time.                                           *)
(***************************************************************************)
\* The bodies of the two Creates that precede: the first an hour-long
\* object named flag, the second a zero-ttl or one-time object.
PairFirst ==
    { b \in ValidBodies : b.name = "flag" /\ ~b.enableMFA /\ b.ttlHours = "1"
                          /\ ~b.oneTimeAccess }

PairSecond ==
    { b \in ValidBodies : ~b.enableMFA /\ (b.ttlHours = "0" \/ b.oneTimeAccess) }

\* The state after the two Creates, both at instant 0.
InitPair ==
    /\ \E a \in PairFirst, b \in PairSecond, iv \in RequestIVs :
          table = { NewItem(a, 1, 1, 0, 0, iv, NullS), NewItem(b, 2, 2, 0, 0, iv, NullS) }
    /\ now = 0
    /\ nextId = 3
    /\ reqs = [p \in Procs |-> IdleReq]
    /\ lastRead = {}

BeginPair(p) ==
    \/ \E name \in Names, token \in ReqTokens, code \in {Undef}, ok \in BOOLEAN :
          getObject(p, name, token, code, ok)
    \/ \E name \in Names, token \in ReqTokens, iv \in RequestIVs, ok \in BOOLEAN :
          toggleBooleanObject(p, name, token, iv, ok)
    \/ \E id \in ReqIds, ok \in BOOLEAN : deleteObject(p, id, ok)
    \/ \E adminToken \in AdminTokens, ok \in BOOLEAN : adminCleanup(p, adminToken, ok)
    \/ \E email \in Emails \cup {"anonymous", Undef}, ok \in BOOLEAN :
          getUserObjects(p, email, ok)
    \/ \E adminToken \in AdminTokens, ok \in BOOLEAN :
          adminGetAllObjects(p, adminToken, ok)

ContinuePair(p) ==
    \/ Return(p)
    \/ \E ok \in BOOLEAN : ExpiredDelete(p, ok)
    \/ \E iv \in RequestIVs, ok \in BOOLEAN : PutHit(p, iv, ok)
    \/ \E ok \in BOOLEAN : OneTimeDelete(p, ok)
    \/ \E ok \in BOOLEAN : PutToggle(p, ok)
    \/ \E ok \in BOOLEAN : TogglePut(p, ok)
    \/ \E ok \in BOOLEAN : SweepDelete(p, ok)

NextPair == Tick \/ BeginPair(1) \/ ContinuePair(1)

SpecPair == InitPair /\ [][NextPair]_vars

\* Concurrent invocations: the steps of the requests interleave.
NextConc == Tick \/ \E p \in Procs : Begin(p) \/ Continue(p)

SpecConc == Init /\ [][NextConc]_vars


(***************************************************************************)
(* Overlapping fetches of one record: the steps of two invocations         *)
(* interleave.                                                             *)
(***************************************************************************)
\* The body of the Create that precedes: an hour-long object named flag.
RaceBodies == { b \in ValidBodies : b.name = "flag" /\ ~b.enableMFA /\ b.ttlHours = "1" }

\* The state after the Create at instant 0.
InitRace ==
    /\ \E b \in RaceBodies, iv \in RequestIVs : table = { NewItem(b, 1, 1, 0, 0, iv, NullS) }
    /\ now = 0
    /\ nextId = 2
    /\ reqs = [p \in Procs |-> IdleReq]
    /\ lastRead = {}

BeginRace(p) ==
    \/ \E name \in {"flag"}, token \in 1..2, code \in {Undef}, ok \in BOOLEAN :
          getObject(p, name, token, code, ok)
    \/ \E token \in 1..1, code \in {Undef}, ok \in BOOLEAN :
          getObjectByToken(p, token, code, ok)

ContinueRace(p) ==
    \/ Return(p)
    \/ \E ok \in BOOLEAN : ExpiredDelete(p, ok)
    \/ \E iv \in RequestIVs, ok \in BOOLEAN : PutHit(p, iv, ok)
    \/ \E ok \in BOOLEAN : OneTimeDelete(p, ok)
    \/ \E ok \in BOOLEAN : PutToggle(p, ok)

NextRace == Tick \/ \E p \in Procs : BeginRace(p) \/ ContinueRace(p)

SpecRace == InitRace /\ [][NextRace]_vars


(***************************************************************************)
(* A fetch or toggle overlapping an Update of the same record: invocation  *)
(* 1 reads, invocation 2 updates, and their steps interleave.              *)
(***************************************************************************)
\* The state after the Create at instant 0.
InitStale ==
    /\ \E b \in PairFirst, iv \in RequestIVs : table = { NewItem(b, 1, 1, 0, 0, iv, NullS) }
    /\ now = 0
    /\ nextId = 2
    /\ reqs = [p \in Procs |-> IdleReq]
    /\ lastRead = {}

BeginStale ==
    \/ \E name \in {"flag"}, token \in 1..1, code \in {Undef}, ok \in BOOLEAN :
          getObject(1, name, token, code, ok)
    \/ \E name \in {"flag"}, token \in 1..1, iv \in RequestIVs, ok \in BOOLEAN :
          toggleBooleanObject(1, name, token, iv, ok)
    \/ \E id \in 1..1, updates \in Patches, ok \in BOOLEAN :
          updateObject(2, id, updates, ok)

\* The clock stays at the instant of the Create: the object does not expire
\* while the two requests overlap.
ContinueStale(p) ==
    \/ Return(p)
    \/ \E iv \in RequestIVs, ok \in BOOLEAN : PutHit(p, iv, ok)
    \/ \E ok \in BOOLEAN : PutToggle(p, ok)
    \/ \E ok \in BOOLEAN : TogglePut(p, ok)
    \/ \E ok \in BOOLEAN : UpdatePut(p, ok)

NextStale == BeginStale \/ \E p \in Procs : ContinueStale(p)

SpecStale == InitStale /\ [][NextStale]_vars


(***************************************************************************)
(* A one-time boolean object: fetches and POST /toggle, one request at a   *)
(* time.                                                                   *)
(***************************************************************************)
\* The body of the Create that precedes.
OnceBodies ==
    { Body("flag", "boolean", content, "1", "ann@x", TRUE, FALSE) : content \in {JsTrue, JsFalse} }

\* The state after the Create at instant 0.
InitOnce ==
    /\ \E b \in OnceBodies, iv \in RequestIVs : table = { NewItem(b, 1, 1, 0, 0, iv, NullS) }
    /\ now = 0
    /\ nextId = 2
    /\ reqs = [p \in Procs |-> IdleReq]
    /\ lastRead = {}

BeginOnce(p) ==
    \/ \E name \in Names, token \in 1..2, code \in {Undef}, ok \in BOOLEAN :
          getObject(p, name, token, code, ok)
    \/ \E token \in 1..2, code \in {Undef}, ok \in BOOLEAN :
          getObjectByToken(p, token, code, ok)
    \/ \E name \in Names, token \in 1..2, iv \in RequestIVs, ok \in BOOLEAN :
          toggleBooleanObject(p, name, token, iv, ok)

ContinueOnce(p) ==
    \/ Return(p)
    \/ \E ok \in BOOLEAN : ExpiredDelete(p, ok)
    \/ \E iv \in RequestIVs, ok \in BOOLEAN : PutHit(p, iv, ok)
    \/ \E ok \in BOOLEAN : OneTimeDelete(p, ok)
    \/ \E ok \in BOOLEAN : TogglePut(p, ok)

NextOnce == Tick \/ BeginOnce(1) \/ ContinueOnce(1)

SpecOnce == InitOnce /\ [][NextOnce]_vars


(***************************************************************************)
(* The entry of the handler: the OPTIONS answer and the CloudFront secret  *)
(* check that precede the routing.  The event of the invocation (its       *)
(* method and its x-cf-secret header) is kept in reqs[2] while invocation  *)
(* 1 handles it; the routes are those of the one-time object above.        *)
(* The handler accepts Function URL events and API Gateway events.         *)
(***************************************************************************)
\* process.env.CLOUDFRONT_SECRET
CF_SECRET == "cf-secret"

\* event.headers['x-cf-secret'] || event.headers['X-CF-Secret']
CfSecretHeaders == {CF_SECRET, "guess", Undef}

Methods == {"OPTIONS", "GET", "POST"}

\* The event: a Function URL event carries its method in
\* requestContext.http.method, an API Gateway event in httpMethod.
Event(http, httpMethod, cfSecretHeader) ==
    [op |-> "event", pc |-> "done", http |-> http, httpMethod |-> httpMethod,
     cfSecretHeader |-> cfSecretHeader]

Events ==
    { Event(m, Undef, h) : m \in Methods, h \in CfSecretHeaders }
        \cup { Event(Undef, m, h) : m \in Methods, h \in CfSecretHeaders }

\* event.requestContext?.http?.method || event.httpMethod
MethodOf(event) == IF event.http # Undef THEN event.http ELSE event.httpMethod

\* An event reaches the function.
Arrive(event) ==
    /\ Free(1)
    /\ Free(2)
    /\ reqs' = [reqs EXCEPT ![2] = event]
    /\ UNCHANGED <<table, now, nextId, lastRead>>

\* The answer of the handler itself, without a route's function.
Answer(p, status) ==
    /\ reqs' = [reqs EXCEPT ![p] =
          Respond([IdleReq EXCEPT !.op = "handler", !.tCheck = now], status)]
    /\ lastRead' = Noted(reqs'[p])
    /\ UNCHANGED <<table, now, nextId>>

\* exports.handler up to the routing: 200 for OPTIONS (tested on
\* requestContext.http.method only), 403 without the CloudFront secret,
\* else the route's function; no route has the method OPTIONS (404).
handler(p) ==
    /\ Free(p)
    /\ reqs[2].op = "event"
    /\ IF reqs[2].http = "OPTIONS" THEN Answer(p, 200)
       ELSE IF reqs[2].cfSecretHeader # CF_SECRET THEN Answer(p, 403)
       ELSE IF MethodOf(reqs[2]) = "OPTIONS" THEN Answer(p, 404)
       ELSE BeginOnce(p)

\* The event is dropped once its invocation has returned.
Forget ==
    /\ reqs[2].op = "event"
    /\ Free(1)
    /\ reqs' = [reqs EXCEPT ![2] = IdleReq]
    /\ UNCHANGED <<table, now, nextId, lastRead>>

NextGate ==
    \/ Tick
    \/ \E event \in Events : Arrive(event)
    \/ handler(1)
    \/ ContinueOnce(1)
    \/ Forget

SpecGate == InitOnce /\ [][NextGate]_vars


(***************************************************************************)
(* The codec on its own: encryptContent and decryptContent applied to      *)
(* contents, to stored legacy values and to damaged blobs.  The call keeps *)
(* its argument in obj (a content) or item (a stored value) and its result *)
(* in content.                                                             *)
(***************************************************************************)
MaxLen == 2          \* the longest text drawn over TextChars

TextChars == {"h", "1", ":"}

\* The string and boolean contents: short texts, the texts that are JSON
\* literals, and the two booleans.
Contents ==
    { Str(t) : t \in UNION { [1..k -> TextChars] : k \in 0..MaxLen } }
        \cup { Str(JsTrue.s), Str(JsFalse.s), Str(Null.s), JsTrue, JsFalse }

\* Blobs that do not decipher: the last hex digit lost, the first lost.
Damaged(v) ==
    { Str(SubSeq(v.s, 1, Len(v.s) - 1)), Str(SubSeq(v.s, 2, Len(v.s))) }

StoredValues == Contents \cup UNION { Damaged(encryptContent(x, iv)) : x \in Contents, iv \in IVs }

InitCodec ==
    /\ table = {}
    /\ now = 0
    /\ nextId = 1
    /\ reqs = [p \in Procs |-> IdleReq]
    /\ lastRead = {}

\* encryptContent(x)
CallEncrypt(p, x, iv) ==
    /\ Free(p)
    /\ reqs' = [reqs EXCEPT ![p] =
          [Respond(IdleReq, 0) EXCEPT !.op = "encryptContent", !.obj = {x},
                                      !.content = encryptContent(x, iv)]]
    /\ UNCHANGED <<table, now, nextId, lastRead>>

\* decryptContent(encryptContent(x))
CallDecrypt(p) ==
    /\ reqs[p].pc = "done"
    /\ reqs[p].op = "encryptContent"
    /\ reqs' = [reqs EXCEPT ![p] =
          [reqs[p] EXCEPT !.op = "decryptContent", !.item = {reqs[p].content},
                          !.content = decryptContent(reqs[p].content)]]
    /\ UNCHANGED <<table, now, nextId, lastRead>>

\* decryptContent(v) of a stored value
CallDecryptStored(p, v) ==
    /\ Free(p)
    /\ reqs' = [reqs EXCEPT ![p] =
          [Respond(IdleReq, 0) EXCEPT !.op = "decryptContent", !.item = {v},
                                      !.content = decryptContent(v)]]
    /\ UNCHANGED <<table, now, nextId, lastRead>>

NextCodec ==
    \/ \E x \in Contents, iv \in IVs : CallEncrypt(1, x, iv)
    \/ CallDecrypt(1)
    \/ \E v \in StoredValues : CallDecryptStored(1, v)
    \/ Return(1)

SpecCodec == InitCodec /\ [][NextCodec]_vars


(***************************************************************************)
(* The local-storage library (lib/storage): the same operations on a list  *)
(* kept under one localStorage key.  Here table is that list (ids and      *)
(* tokens are fresh uuids, numbered in the order of creation), a call is   *)
(* synchronous and therefore one step, and reqs[1] holds the last call:    *)
(* its arguments, the object it found (obj), what it returned (item, and   *)
(* the outcome in code, the count in hits) and whether saveObjects failed. *)
(* Contents are stored as they are, without the codec.                     *)
(***************************************************************************)
MaxLocalObjects == 2     \* objects ever created in the list

\* CreateObjectData with its owner.
LocalObjectData(name, type, content, ttlHours) ==
    [name |-> name, type |-> type, content |-> content, ttlHours |-> ttlHours,
     owner |-> "ann@x"]

LocalData ==
    { LocalObjectData("flag", "toggle", JsFalse, 1),
      LocalObjectData("flag", "boolean", JsTrue, 0),
      LocalObjectData("note", "string", Str(<<"h", "i">>), 1),
      LocalObjectData("note", "toggle", JsTrue, 0) }

\* Partial<TrufoObject> patches.
LocalPatches == { [content |-> JsTrue], [name |-> "flag"] }

Returned == "<returned>"

LocalCall(op) == [IdleReq EXCEPT !.op = op, !.pc = "done", !.tCheck = now]

\* saveObjects(objects): localStorage.setItem may throw (quota); the error
\* is logged and swallowed and the stored list stays as it was.
saveObjects(objects, ok) == IF ok THEN objects ELSE table

InitLocal ==
    /\ table = {}
    /\ now = 0
    /\ nextId = 1
    /\ reqs = [p \in Procs |-> IdleReq]
    /\ lastRead = {}

\* The object createObject builds.
LocalItem(data, id, t) ==
    [id |-> id,
     name |-> data.name,
     type |-> data.type,
     content |-> data.content,
     token |-> id,
     ttl |-> t + data.ttlHours * MsPerHour,
     createdAt |-> t,
     hitCount |-> 0,
     lastHit |-> NoHit,
     ownerEmail |-> data.owner,
     ownerName |-> data.owner]

\* createObject(data, owner)
localCreateObject(data, ok) ==
    /\ nextId <= MaxLocalObjects
    /\ LET newObject == LocalItem(data, nextId, now)
       IN  IF \E obj \in table : obj.name = data.name
           THEN /\ reqs' = [reqs EXCEPT ![1] =
                      [LocalCall("createObject") EXCEPT !.body = data, !.code = Threw]]
                /\ UNCHANGED <<table, nextId>>
           ELSE /\ table' = saveObjects(table \cup {newObject}, ok)
                /\ nextId' = nextId + 1
                /\ reqs' = [reqs EXCEPT ![1] =
                      [LocalCall("createObject") EXCEPT !.body = data, !.item = {newObject},
                                                        !.code = Returned, !.failed = ~ok]]
    /\ UNCHANGED <<now, lastRead>>

\* objects.find(o => o.name === name && o.token === token): the first
\* match in the order of the list.
Find(name, token) ==
    LET matches == { o \in table : o.name = name /\ o.token = token }
    IN  { o \in matches : \A m \in matches : o.id <= m.id }

\* A fault: the access returns and stores the hit without flipping a toggle.
AccessedNoToggle(obj, t) ==
    [obj EXCEPT !.hitCount = obj.hitCount + 1, !.lastHit = t]

\* The object after an access: the hit counted, lastHit set, a toggle
\* flipped.
Accessed(obj, t) ==
    [obj EXCEPT !.hitCount = obj.hitCount + 1,
                !.lastHit = t,
                !.content = IF obj.type = "toggle" THEN Not(obj.content) ELSE obj.content]

\* getObject(name, token); tHit is the Date.now() of lastHit.
localGetObject(name, token, tHit, ok) ==
    /\ HitsBelowBound
    /\ LET call == [LocalCall("getObject") EXCEPT !.name = name, !.token = token]
           found == Find(name, token)
       IN  IF found = {} \/ \E obj \in found : obj.ttl < now
           THEN /\ reqs' = [reqs EXCEPT ![1] = [call EXCEPT !.obj = found, !.code = NullS]]
                /\ UNCHANGED <<table, now>>
           ELSE \E obj \in found :
                  /\ now' = tHit
                  /\ table' = saveObjects((table \ {obj}) \cup {Accessed(obj, tHit)}, ok)
                  /\ reqs' = [reqs EXCEPT ![1] =
                        [call EXCEPT !.obj = found, !.item = {Accessed(obj, tHit)},
                                     !.code = Returned, !.failed = ~ok]]
    /\ UNCHANGED <<nextId, lastRead>>

\* updateObject(id, updates)
localUpdateObject(id, updates, ok) ==
    /\ LET call == [LocalCall("updateObject") EXCEPT !.id = id, !.patch = updates]
           found == GetCommand(table, id)
       IN  IF found = {}
           THEN /\ reqs' = [reqs EXCEPT ![1] = [call EXCEPT !.code = NullS]]
                /\ table' = table
           ELSE \E obj \in found :
                  /\ table' = saveObjects((table \ {obj}) \cup {Merge(obj, updates)}, ok)
                  /\ reqs' = [reqs EXCEPT ![1] =
                        [call EXCEPT !.obj = found, !.item = {Merge(obj, updates)},
                                     !.code = Returned, !.failed = ~ok]]
    /\ UNCHANGED <<now, nextId, lastRead>>

\* deleteObject(id)
localDeleteObject(id, ok) ==
    /\ LET call == [LocalCall("deleteObject") EXCEPT !.id = id]
           filteredObjects == { obj \in table : obj.id # id }
       IN  IF filteredObjects = table
           THEN /\ reqs' = [reqs EXCEPT ![1] = [call EXCEPT !.code = "false"]]
                /\ table' = table
           ELSE /\ table' = saveObjects(filteredObjects, ok)
                /\ reqs' = [reqs EXCEPT ![1] =
                      [call EXCEPT !.obj = GetCommand(table, id), !.code = "true",
                                   !.failed = ~ok]]
    /\ UNCHANGED <<now, nextId, lastRead>>

\* cleanupExpiredObjects(): removedCount is kept in hits.
cleanupExpiredObjects(ok) ==
    /\ LET activeObjects == { obj \in table : obj.ttl > now }
           removedCount == Cardinality(table) - Cardinality(activeObjects)
       IN  /\ table' = IF removedCount > 0 THEN saveObjects(activeObjects, ok) ELSE table
           /\ reqs' = [reqs EXCEPT ![1] =
                 [LocalCall("cleanupExpiredObjects") EXCEPT
                     !.obj = table \ activeObjects, !.hits = removedCount,
                     !.code = Returned, !.failed = (removedCount > 0 /\ ~ok)]]
    /\ UNCHANGED <<now, nextId, lastRead>>

NextLocal ==
    \/ Tick
    \/ \E data \in LocalData, ok \in BOOLEAN : localCreateObject(data, ok)
    \/ \E name \in Names, token \in 1..MaxLocalObjects, tHit \in SecondRead(now),
          ok \in BOOLEAN : localGetObject(name, token, tHit, ok)
    \/ \E id \in 1..MaxLocalObjects, updates \in LocalPatches, ok \in BOOLEAN :
          localUpdateObject(id, updates, ok)
    \/ \E id \in 1..MaxLocalObjects, ok \in BOOLEAN : localDeleteObject(id, ok)
    \/ \E ok \in BOOLEAN : cleanupExpiredObjects(ok)

SpecLocal == InitLocal /\ [][NextLocal]_vars


(***************************************************************************)
(* The admin token manager of the web client (lib/admin): one token under  *)
(* one localStorage key, verified against a file in the S3 bucket.  Here   *)
(* table is the value stored under the key ({} when absent), nextId is 1   *)
(* in a development build and 0 otherwise, and lastRead is the history of  *)
(* the tokens for which verifyAdminToken has returned true.  A call is     *)
(* asynchronous: it runs up to the fetch, then the response arrives, then  *)
(* the caller resumes; calls of the page and of other tabs interleave at   *)
(* these points.  reqs[p] holds a call: its token, the isValid it got and  *)
(* what it returned (success, or auth for an AdminAuth).                   *)
(***************************************************************************)
\* import.meta.env.DEV
DEV == nextId = 1

\* 'root'
DevToken == <<"r", "o", "o", "t">>

RECURSIVE TrimStart(_)
TrimStart(s) == IF s # <<>> /\ Head(s) = " " THEN TrimStart(Tail(s)) ELSE s

RECURSIVE TrimEnd(_)
TrimEnd(s) ==
    IF s # <<>> /\ s[Len(s)] = " " THEN TrimEnd(SubSeq(s, 1, Len(s) - 1)) ELSE s

\* String.prototype.trim
trim(s) == TrimEnd(TrimStart(s))

\* The tokens typed into the login form.
TokenInputs ==
    { <<>>, <<"k">>, <<"k", " ">>, <<"x">>, DevToken, <<" ">> \o DevToken }

\* The fetch of the token file: it fails or is not ok, or it has a text.
NotOk == "<not ok>"

Responses == { NotOk, <<"k">>, <<"k", " ">>, <<>> }

NoCall ==
    [op |-> "none", pc |-> "idle", token |-> <<>>, isValid |-> FALSE,
     success |-> FALSE, auth |-> [isAdmin |-> FALSE, token |-> {}]]

InitAdmin ==
    /\ table = {}
    /\ now = 0
    /\ nextId \in {0, 1}
    /\ reqs = [p \in Procs |-> NoCall]
    /\ lastRead = {}

\* storeAdminToken(token): setItem may throw; the error is logged and
\* swallowed.
storeAdminToken(token, ok) == IF ok THEN {token} ELSE table

\* clearAdminToken(), as the logout calls it.
clearAdminToken ==
    /\ table' = {}
    /\ UNCHANGED <<now, nextId, reqs, lastRead>>

\* verifyAdminToken(token) up to its fetch: in a development build 'root'
\* is accepted at once.
VerifyStart(p, op, token) ==
    /\ reqs' = [reqs EXCEPT ![p] =
          IF DEV /\ trim(token) = DevToken
          THEN [NoCall EXCEPT !.op = op, !.pc = "resume", !.token = token,
                              !.isValid = TRUE]
          ELSE [NoCall EXCEPT !.op = op, !.pc = "fetch", !.token = token]]
    /\ lastRead' = IF DEV /\ trim(token) = DevToken THEN lastRead \cup {token}
                   ELSE lastRead

\* What verifyAdminToken returns once the response is there.
verifyAdminToken(token, response) ==
    IF response = NotOk THEN FALSE ELSE trim(response) = trim(token)

\* The response of the fetch arrives and verifyAdminToken returns.
Fetched(p, response) ==
    /\ reqs[p].pc = "fetch"
    /\ reqs' = [reqs EXCEPT ![p] =
          [reqs[p] EXCEPT !.pc = "resume",
                          !.isValid = verifyAdminToken(reqs[p].token, response)]]
    /\ lastRead' = IF verifyAdminToken(reqs[p].token, response)
                   THEN lastRead \cup {reqs[p].token} ELSE lastRead
    /\ UNCHANGED <<table, now, nextId>>

\* authenticateAdmin(token) up to the await.
authenticateAdmin(p, token) ==
    /\ Free(p)
    /\ VerifyStart(p, "authenticateAdmin", token)
    /\ UNCHANGED <<table, now, nextId>>

\* A fault: the token is stored whatever the verification said.
authenticateAdminStoresAny(p, ok) ==
    /\ reqs[p].pc = "resume"
    /\ reqs[p].op = "authenticateAdmin"
    /\ table' = storeAdminToken(reqs[p].token, ok)
    /\ reqs' = [reqs EXCEPT ![p] =
          [reqs[p] EXCEPT !.pc = "done", !.success = reqs[p].isValid]]
    /\ UNCHANGED <<now, nextId, lastRead>>

\* authenticateAdmin after the await: the token is stored when it is valid.
authenticateAdminResume(p, ok) ==
    /\ reqs[p].pc = "resume"
    /\ reqs[p].op = "authenticateAdmin"
    /\ table' = IF reqs[p].isValid THEN storeAdminToken(reqs[p].token, ok) ELSE table
    /\ reqs' = [reqs EXCEPT ![p] =
          [reqs[p] EXCEPT !.pc = "done", !.success = reqs[p].isValid]]
    /\ UNCHANGED <<now, nextId, lastRead>>

\* checkAdminAccess() up to the await: without a stored token, or with the
\* empty one, it returns at once.
checkAdminAccess(p) ==
    /\ Free(p)
    /\ IF table = {} \/ <<>> \in table
       THEN /\ reqs' = [reqs EXCEPT ![p] =
                  [NoCall EXCEPT !.op = "checkAdminAccess", !.pc = "done"]]
            /\ lastRead' = lastRead
       ELSE \E storedToken \in table : VerifyStart(p, "checkAdminAccess", storedToken)
    /\ UNCHANGED <<table, now, nextId>>

\* checkAdminAccess after the await: an invalid token is cleared.
checkAdminAccessResume(p) ==
    /\ reqs[p].pc = "resume"
    /\ reqs[p].op = "checkAdminAccess"
    /\ table' = IF reqs[p].isValid THEN table ELSE {}
    /\ reqs' = [reqs EXCEPT ![p] =
          [reqs[p] EXCEPT !.pc = "done",
              !.auth = IF reqs[p].isValid
                       THEN [isAdmin |-> TRUE, token |-> {reqs[p].token}]
                       ELSE [isAdmin |-> FALSE, token |-> {}]]]
    /\ UNCHANGED <<now, nextId, lastRead>>

\* The caller has taken the result of the call.
Settle(p) ==
    /\ reqs[p].pc = "done"
    /\ reqs' = [reqs EXCEPT ![p] = NoCall]
    /\ UNCHANGED <<table, now, nextId, lastRead>>

AdminStep(p) ==
    \/ \E token \in TokenInputs : authenticateAdmin(p, token)
    \/ checkAdminAccess(p)
    \/ \E response \in Responses : Fetched(p, response)
    \/ \E ok \in BOOLEAN : authenticateAdminResume(p, ok)
    \/ checkAdminAccessResume(p)
    \/ Settle(p)

NextAdmin == clearAdminToken \/ \E p \in Procs : AdminStep(p)

SpecAdmin == InitAdmin /\ [][NextAdmin]_vars


(***************************************************************************)
(* Properties.                                                             *)
(***************************************************************************)
Done(p) == reqs[p].pc = "done"

\* The request looks its object up by token (fetch) or name and token
\* (fetch, toggle) and checks its expiry.
ChecksExpiry(r) == r.op \in {"getObject", "getObjectByToken", "toggleBooleanObject"}

\* No lookup of the request's object finds a record: by id, by token, by
\* name and token.
NotFoundAnymore(o) ==
    /\ GetCommand(table, o.id) = {}
    /\ ScanByToken(table, o.token) = {}
    /\ { x \in QueryByName(table, o.name) : x.token = o.token } = {}

\* An id that was issued and has no record stays without a record.
StaysDeleted ==
    \A id \in 1..MaxObjects :
        (id < nextId /\ GetCommand(table, id) = {}) => GetCommand(table', id) = {}

\* C1: a fetch or toggle whose expiry check sees ttl <= now answers 410 and
\* deletes the record (unless the delete itself fails: 500); with no other
\* request in flight no later lookup finds the record, and it never comes
\* back.
C1_ExpiredIsDeleted ==
    /\ [](\A p \in Procs : \A o \in reqs[p].obj :
            (Done(p) /\ ChecksExpiry(reqs[p]) /\ o.ttl <= reqs[p].tCheck
                /\ ~reqs[p].failed)
            => (reqs[p].status = 410 /\ NotFoundAnymore(o)))
    /\ [][StaysDeleted]_vars

C1_Witness ==
    \E p \in Procs : \E o \in reqs[p].obj :
        /\ Done(p)
        /\ reqs[p].op = "getObject"
        /\ o.ttl <= reqs[p].tCheck
        /\ o.ttl > o.createdAt
        /\ reqs[p].status = 410

\* C2: no fetch answers 200 for an object whose ttl <= now at its expiry
\* check; the expiry check comes before the TOTP check, so an expired object
\* with a TOTP secret is answered 410 (and deleted), never 403, whatever the
\* code.
C2_ExpiredNeverServed ==
    \A p \in Procs : \A o \in reqs[p].obj :
        (Done(p) /\ IsFetch(reqs[p]))
        => /\ reqs[p].status = 200 => o.ttl > reqs[p].tCheck
           /\ o.ttl <= reqs[p].tCheck
              => /\ reqs[p].status \in {410, 500}
                 /\ reqs[p].status = 500 => reqs[p].failed
                 /\ reqs[p].status = 410 => GetCommand(table, o.id) = {}
                 /\ reqs[p].mfa = "none"
                 /\ reqs[p].content = Undefined

C2_Witness ==
    \E p \in Procs : \E o \in reqs[p].obj :
        /\ Done(p)
        /\ IsFetch(reqs[p])
        /\ o.ttl <= reqs[p].tCheck
        /\ ~Falsy(o.totpSecret)
        /\ Falsy(reqs[p].code)
        /\ reqs[p].status = 410

\* C3: no 200 response carries the content of an object whose totpSecret is
\* set unless the request's TOTP code was verified.
C3_ContentNeedsTotp ==
    \A p \in Procs : \A o \in reqs[p].obj :
        (Done(p) /\ reqs[p].status = 200 /\ reqs[p].content # Undefined
            /\ ~Falsy(o.totpSecret))
        => reqs[p].mfa = "verified"


\* A fetch starts in this step, for a token no record carries.
FetchOfAbsentToken(p) ==
    /\ reqs[p].pc = "idle"
    /\ IsFetch(reqs'[p])
    /\ reqs'[p].token # 0
    /\ ScanByToken(table, reqs'[p].token) = {}

\* A token that was issued and that no record carries is carried by no
\* record later.
TokenStaysAbsent ==
    \A token \in 1..MaxObjects :
        (token < nextId /\ ScanByToken(table, token) = {})
        => ScanByToken(table', token) = {}

\* C4: a fetch that answers 200 for a one-time object returns the decrypted
\* content as stored and hits = the stored hitCount + 1, and has deleted the
\* record; its token then matches no record again, and a fetch with a token
\* that matches no record answers 404 (400 without a name, 500 when the
\* lookup fails).
C4_OneTimeConsumed ==
    /\ [](\A p \in Procs : \A o \in reqs[p].obj :
            (Done(p) /\ IsFetch(reqs[p]) /\ reqs[p].status = 200 /\ o.oneTimeAccess)
            => /\ reqs[p].content = decryptContent(o.content)
               /\ reqs[p].hits = o.hitCount + 1
               /\ NotFoundAnymore(o))
    /\ [][TokenStaysAbsent]_vars
    /\ [][\A p \in Procs :
            FetchOfAbsentToken(p)
            => /\ reqs'[p].pc = "done"
               /\ reqs'[p].status \in {400, 404, 500}
               /\ reqs'[p].status = 400 => (reqs'[p].op = "getObject" /\ Falsy(reqs'[p].name))
               /\ reqs'[p].status = 500 => reqs'[p].failed
               /\ table' = table]_vars

C4_Witness ==
    \E p \in Procs : \E o \in reqs[p].obj :
        /\ Done(p)
        /\ IsFetch(reqs[p])
        /\ reqs[p].status = 200
        /\ o.oneTimeAccess
        /\ reqs[p].content = Str(<<"h", "i">>)
        /\ reqs[p].hits = 1
        /\ table = {}

\* A fetch of a toggle object completes with 200 in this step.
ToggleFetchCompletes(p) ==
    /\ reqs[p].pc = "putToggle"
    /\ reqs'[p].pc = "done"
    /\ reqs'[p].status = 200

InWindow(secret, code, t) ==
    \E i \in {-1, 0, 1} : Hotp(secret, (t \div TotpStepMs) + i) = code

\* C6: a fetch of an unexpired object with a totpSecret answers 403 with
\* requiresTOTP when it carries no code, and 403 when its code does not
\* verify; either way the record stays as it was, one-time or not.
C6_MfaRefusalsKeepRecord ==
    \A p \in Procs : \A o \in reqs[p].obj :
        (Done(p) /\ IsFetch(reqs[p]) /\ o.ttl > reqs[p].tCheck /\ ~Falsy(o.totpSecret)
            /\ (Falsy(reqs[p].code) \/ ~InWindow(o.totpSecret, reqs[p].code, reqs[p].tCheck)))
        => /\ reqs[p].status = 403
           /\ Falsy(reqs[p].code) => reqs[p].requiresTOTP
           /\ GetCommand(table, o.id) = {o}

\* C7: a request that ends in 400, 403, 404, 410 or 500, an Update and a
\* listing leave the hitCount and lastHit of the records they loaded as they
\* were.
C7_HitsOnlyOnSuccess ==
    \A p \in Procs : \A o \in reqs[p].obj :
        (Done(p) /\ (reqs[p].status \in {400, 403, 404, 410, 500}
                        \/ reqs[p].op \in {"updateObject", "getUserObjects"}))
        => \A x \in GetCommand(table, o.id) :
              x.hitCount = o.hitCount /\ x.lastHit = o.lastHit

\* C8: at every instant verifyTOTPToken(secret, code) is true when the code
\* is the secret's code for one of the three steps around now, and false
\* otherwise, an empty secret or code included.
C8_VerifyWindow ==
    \A secret \in TotpSecrets \cup {"", NullS} :
        \A code \in {TotpCodes[i] : i \in DOMAIN TotpCodes} \cup {"", Undef} :
            verifyTOTPToken(secret, code, now) =
                IF ~Falsy(secret) /\ ~Falsy(code) /\ InWindow(secret, code, now)
                THEN "true" ELSE "false"

\* name or type is falsy, or content or ttlHours is undefined or null.
Rejectable(body) ==
    \/ body.name \in {Undef, NullS, ""}
    \/ body.type \in {Undef, NullS, ""}
    \/ body.content \in {Undefined, Null}
    \/ body.ttlHours \in {Undef, NullS}

\* One of name, type, content, ttlHours is missing or null.
AbsentOrNull(body) ==
    \/ body.name \in {Undef, NullS}
    \/ body.type \in {Undef, NullS}
    \/ body.content \in {Undefined, Null}
    \/ body.ttlHours \in {Undef, NullS}

ZeroValued(body) ==
    body.ttlHours = "0" \/ body.content \in {JsFalse, Num(<<"0">>)}

\* A Create is answered in this step without a 201.
CreateRefused(p) ==
    /\ reqs[p].pc = "idle"
    /\ reqs'[p].op = "createObject"
    /\ reqs'[p].status # 201

\* C9 as stated: Create answers 400 exactly when a required field is missing
\* or null, and a body with ttlHours = 0 or content false or 0 and no
\* required field missing is stored and answered 201 (unless the handler
\* fails with 500).
C9_RejectsExactlyMissing ==
    \A p \in Procs :
        (Done(p) /\ reqs[p].op = "createObject")
        => /\ reqs[p].status = 400 <=> AbsentOrNull(reqs[p].body)
           /\ (ZeroValued(reqs[p].body) /\ ~AbsentOrNull(reqs[p].body))
              => reqs[p].status \in {201, 500}

\* C9: Create answers 400 exactly when name or type is missing, null or
\* empty, or content or ttlHours is missing or null, and then stores nothing;
\* any other body, ttlHours = 0 and content false or 0 included, is answered
\* 201 with its record stored, or 500 with nothing stored when the secret
\* generation or the write throws.
C9_CreateValidation ==
    /\ [](\A p \in Procs :
            (Done(p) /\ reqs[p].op = "createObject")
            => /\ reqs[p].status = 400 <=> Rejectable(reqs[p].body)
               /\ reqs[p].status \in {201, 400, 500}
               /\ reqs[p].status = 500 => (reqs[p].failed \/ reqs[p].body.enableMFA)
               /\ (~Rejectable(reqs[p].body) /\ ~reqs[p].body.enableMFA /\ ~reqs[p].failed)
                  => reqs[p].status = 201
               /\ reqs[p].status = 201
                  => (reqs[p].obj # {} /\ reqs[p].obj \subseteq table)
               /\ reqs[p].status # 201 => reqs[p].obj = {})
    /\ [][\A p \in Procs : CreateRefused(p) => table' = table]_vars

C9_Witness ==
    \E p \in Procs : \E o \in reqs[p].obj :
        /\ Done(p)
        /\ reqs[p].op = "createObject"
        /\ reqs[p].body.ttlHours = "0"
        /\ reqs[p].body.content = Num(<<"0">>)
        /\ reqs[p].status = 201
        /\ o \in table

\* C10 as stated: a record created with ttlHours = 0 has ttl = createdAt.
C10_TtlEqualsCreatedAt ==
    \A p \in Procs : \A o \in reqs[p].obj :
        (Done(p) /\ reqs[p].op = "createObject" /\ reqs[p].status = 201
            /\ reqs[p].body.ttlHours = "0")
        => o.ttl = o.createdAt

\* C10: a record created with ttlHours = 0 has as ttl the clock reading at
\* which ttl is computed, which is at or before its createdAt, a later
\* reading; a fetch of such a record, at the creation instant or later,
\* answers 410 and deletes it (500 when the lookup or the delete fails).
C10_ZeroTtlExpiresAtOnce ==
    /\ \A p \in Procs : \A o \in reqs[p].obj :
          (Done(p) /\ reqs[p].op = "createObject" /\ reqs[p].status = 201
              /\ reqs[p].body.ttlHours = "0")
          => /\ o.ttl = reqs[p].tCheck
             /\ o.ttl <= o.createdAt
             /\ o.createdAt <= now
    /\ \A p \in Procs : \A o \in reqs[p].obj :
          (Done(p) /\ IsFetch(reqs[p]) /\ o.ttl <= o.createdAt)
          => /\ reqs[p].tCheck >= o.createdAt
             /\ reqs[p].status \in {410, 500}
             /\ reqs[p].status = 500 => reqs[p].failed
             /\ reqs[p].status = 410 => NotFoundAnymore(o)

C10_Witness ==
    \E p \in Procs : \E o \in reqs[p].obj :
        /\ Done(p)
        /\ IsFetch(reqs[p])
        /\ o.ttl < o.createdAt
        /\ reqs[p].tCheck = o.createdAt
        /\ reqs[p].status = 410
        /\ table = {}


\* C11: a Create that is not rejected and whose write does not fail stores a
\* record with hitCount 0, no lastHit, ttl = creation time + ttlHours hours,
\* ownerEmail as supplied or 'anonymous', oneTimeAccess as supplied, and a
\* generated totpSecret exactly when enableMFA is set.
C11_CreatedRecord ==
    \A p \in Procs :
        (Done(p) /\ reqs[p].op = "createObject" /\ ~Rejectable(reqs[p].body)
            /\ ~reqs[p].failed)
        => /\ reqs[p].status = 201
           /\ reqs[p].obj # {}
           /\ \A o \in reqs[p].obj :
                 /\ o \in table
                 /\ o.hitCount = 0
                 /\ o.lastHit = NoHit
                 /\ o.ttl = reqs[p].tCheck + parseFloat(reqs[p].body.ttlHours) * MsPerHour
                 /\ o.ownerEmail = IF Falsy(reqs[p].body.ownerEmail) THEN "anonymous"
                                   ELSE reqs[p].body.ownerEmail
                 /\ o.oneTimeAccess = reqs[p].body.oneTimeAccess
                 /\ reqs[p].body.enableMFA => o.totpSecret \in TotpSecrets
                 /\ ~reqs[p].body.enableMFA => o.totpSecret = NullS


\* A POST /toggle completes with 200 in this step.
ToggleCompletes(p) ==
    /\ reqs[p].pc = "togglePut"
    /\ reqs'[p].pc = "done"
    /\ reqs'[p].status = 200

\* C12: POST /toggle on an unexpired boolean object found by name and token
\* answers 200 (500 when a repository command fails) with the negation of
\* the stored value and hits = hitCount + 1, and leaves that negation and
\* that hit count stored; when the previous completed request was a 200
\* fetch of the same object, the toggle returns the negation of the content
\* that fetch returned and one more hit (true, 1 then false, 2).
C12_ToggleEndpoint ==
    /\ [](\A p \in Procs : \A o \in reqs[p].obj :
            (Done(p) /\ reqs[p].op = "toggleBooleanObject" /\ o.type = "boolean"
                /\ o.ttl > reqs[p].tCheck)
            => /\ reqs[p].status \in {200, 500}
               /\ reqs[p].status = 500 => reqs[p].failed
               /\ reqs[p].status = 200
                  => /\ reqs[p].content = Not(decryptContent(o.content))
                     /\ reqs[p].hits = o.hitCount + 1
                     /\ \E x \in GetCommand(table, o.id) :
                           /\ decryptContent(x.content) = reqs[p].content
                           /\ x.hitCount = o.hitCount + 1
                           /\ x.hitCount = reqs[p].hits
                           /\ x.lastHit = reqs[p].tCheck)
    /\ [][\A p \in Procs : \A o \in reqs[p].obj : \A prev \in lastRead :
            (ToggleCompletes(p) /\ prev.id = o.id)
            => /\ reqs'[p].content = Not(prev.content)
               /\ reqs'[p].hits = prev.hits + 1
               /\ \A x \in GetCommand(table', o.id) :
                     decryptContent(x.content) = Not(prev.content)]_vars

C12_Witness ==
    \E p \in Procs : \E o \in reqs[p].obj :
        /\ Done(p)
        /\ reqs[p].op = "toggleBooleanObject"
        /\ reqs[p].status = 200
        /\ decryptContent(o.content) = JsTrue
        /\ reqs[p].content = JsFalse
        /\ reqs[p].hits = 2
        /\ \E x \in table : decryptContent(x.content) = JsFalse /\ x.hitCount = 2


\* C13 as stated: POST /toggle on any object the lookup finds whose type is
\* not boolean answers 400 and leaves the record as it was.
C13_NonBooleanRejected ==
    \A p \in Procs : \A o \in reqs[p].obj :
        (Done(p) /\ reqs[p].op = "toggleBooleanObject" /\ o.type # "boolean")
        => /\ reqs[p].status = 400
           /\ GetCommand(table, o.id) = {o}

\* C13: POST /toggle on an unexpired object whose type is not boolean
\* answers 400 and leaves the record as it was; on an expired one the expiry
\* check comes first: 410 with the record deleted (500 with the record kept
\* when the delete fails).
C13_UnexpiredNonBooleanRejected ==
    \A p \in Procs : \A o \in reqs[p].obj :
        (Done(p) /\ reqs[p].op = "toggleBooleanObject" /\ o.type # "boolean")
        => /\ o.ttl > reqs[p].tCheck
              => (reqs[p].status = 400 /\ GetCommand(table, o.id) = {o})
           /\ o.ttl <= reqs[p].tCheck
              => /\ reqs[p].status \in {410, 500}
                 /\ reqs[p].status = 410 => GetCommand(table, o.id) = {}
                 /\ reqs[p].status = 500 => (reqs[p].failed /\ GetCommand(table, o.id) = {o})

C13_Witness ==
    \E p \in Procs : \E o \in reqs[p].obj :
        /\ Done(p)
        /\ reqs[p].op = "toggleBooleanObject"
        /\ o.type = "toggle"
        /\ o.ttl > reqs[p].tCheck
        /\ o.hitCount = 1
        /\ reqs[p].status = 400
        /\ o \in table


\* C14: POST /toggle has no TOTP gate: on an unexpired boolean object with a
\* totpSecret, the request (name and token, no code) answers 200, stores the
\* negation and counts the hit (500 when a repository command fails), while
\* a fetch of such an object without a code answers 403 and changes nothing.
C14_ToggleSkipsTotp ==
    /\ \A p \in Procs : \A o \in reqs[p].obj :
          (Done(p) /\ reqs[p].op = "toggleBooleanObject" /\ o.type = "boolean"
              /\ o.ttl > reqs[p].tCheck /\ ~Falsy(o.totpSecret) /\ ~reqs[p].failed)
          => /\ reqs[p].status = 200
             /\ Falsy(reqs[p].code)
             /\ reqs[p].content = Not(decryptContent(o.content))
             /\ \E x \in GetCommand(table, o.id) :
                   /\ decryptContent(x.content) = Not(decryptContent(o.content))
                   /\ x.hitCount = o.hitCount + 1
                   /\ x.totpSecret = o.totpSecret
    /\ \A p \in Procs : \A o \in reqs[p].obj :
          (Done(p) /\ IsFetch(reqs[p]) /\ o.ttl > reqs[p].tCheck
              /\ ~Falsy(o.totpSecret) /\ Falsy(reqs[p].code))
          => /\ reqs[p].status = 403
             /\ reqs[p].requiresTOTP
             /\ reqs[p].content = Undefined
             /\ GetCommand(table, o.id) = {o}

C14_Witness ==
    \E p \in Procs : \E o \in reqs[p].obj :
        /\ Done(p)
        /\ reqs[p].op = "toggleBooleanObject"
        /\ o.type = "boolean"
        /\ o.totpSecret = "KA"
        /\ reqs[p].status = 200
        /\ reqs[p].hits = o.hitCount + 1


ByNameAndToken(r) == r.op \in {"getObject", "toggleBooleanObject"}

\* A request by name and token starts in this step, with both given.
NameLookupStarts(p) ==
    /\ reqs[p].pc = "idle"
    /\ ByNameAndToken(reqs'[p])
    /\ ~Falsy(reqs'[p].name)
    /\ reqs'[p].token # 0

\* The records the request at r does not hold are the same before and after
\* the step.
OthersUntouched(r) ==
    /\ \A x \in table : (\A o \in r.obj : x.id # o.id) => x \in table'
    /\ \A x \in table' : (\A o \in r.obj : x.id # o.id) => x \in table

\* C15: a fetch or toggle by name and token finds only a record that has
\* that name and that token and returns that record's content; when no
\* record has both, the answer is 404 (500 when the query fails) and the
\* table is unchanged; among records that share a name, every step of the
\* request changes or deletes only the record it found.
C15_TokenSelectsRecord ==
    /\ [](\A p \in Procs : \A o \in reqs[p].obj :
            (Done(p) /\ ByNameAndToken(reqs[p]))
            => /\ o.name = reqs[p].name
               /\ o.token = reqs[p].token
               /\ (reqs[p].status = 200 /\ IsFetch(reqs[p]))
                  => reqs[p].content = decryptContent(o.content))
    /\ [][\A p \in Procs :
            (NameLookupStarts(p)
                /\ ~\E x \in table : x.name = reqs'[p].name /\ x.token = reqs'[p].token)
            => /\ reqs'[p].pc = "done"
               /\ reqs'[p].status \in {404, 500}
               /\ reqs'[p].status = 500 => reqs'[p].failed
               /\ reqs'[p].obj = {}
               /\ table' = table]_vars
    /\ [][\A p \in Procs :
            (ByNameAndToken(reqs'[p]) /\ reqs[p].pc # "done")
            => OthersUntouched(reqs'[p])]_vars

C15_Witness ==
    \E p \in Procs : \E o \in reqs[p].obj : \E x \in table :
        /\ Done(p)
        /\ reqs[p].op = "getObject"
        /\ reqs[p].status = 200
        /\ o.id = 1
        /\ x.id = 2
        /\ x.name = o.name
        /\ x.hitCount = 0
        /\ \E y \in table : y.id = 1 /\ y.hitCount = o.hitCount + 1


\* A Delete is answered in this step.
DeleteAnswered(p) ==
    /\ reqs[p].pc = "idle"
    /\ reqs'[p].op = "deleteObject"

\* C19: Delete(id) answers 200 whether or not the id has a record (400
\* without an id, 500 when the command fails, both leaving the table as it
\* was); after a 200 the table is the one before without the record of that
\* id, every other record is as it was, and deleting the id again would
\* change nothing.
C19_DeleteIdempotent ==
    /\ [][\A p \in Procs :
            DeleteAnswered(p)
            => /\ reqs'[p].pc = "done"
               /\ reqs'[p].id = 0 => (reqs'[p].status = 400 /\ table' = table)
               /\ reqs'[p].id # 0
                  => /\ reqs'[p].status \in {200, 500}
                     /\ reqs'[p].status = 500 => (reqs'[p].failed /\ table' = table)
                     /\ reqs'[p].status = 200
                        => /\ table' = { x \in table : x.id # reqs'[p].id }
                           /\ DeleteCommand(table', reqs'[p].id) = table']_vars
    /\ [](\A p \in Procs :
            (Done(p) /\ reqs[p].op = "deleteObject" /\ reqs[p].status = 200)
            => GetCommand(table, reqs[p].id) = {})

C19_Witness ==
    \E p \in Procs :
        /\ Done(p)
        /\ reqs[p].op = "deleteObject"
        /\ reqs[p].status = 200
        /\ reqs[p].id = 1
        /\ GetCommand(table, 1) = {}
        /\ GetCommand(table, 2) # {}
        /\ now > 0


\* A step of a sweep: its scan or one of its deletes.
SweepStep(p) ==
    /\ reqs[p].pc \in {"idle", "sweep"}
    /\ reqs'[p].op = "adminCleanup"

EncryptedForm(v) ==
    /\ v.t = "string"
    /\ LET parts == Split(v.s)
       IN  /\ Len(parts) = 2
           /\ Len(parts[1]) = 2 * IvBytes
           /\ \A i \in 1..Len(parts[1]) : IsHex(parts[1][i])
           /\ Len(parts[2]) > 0
           /\ Len(parts[2]) % 2 = 0
           /\ \A i \in 1..Len(parts[2]) : IsHex(parts[2][i])

\* C17: the content of every stored record has the encrypted form.
C17_ContentEncrypted == \A x \in table : EncryptedForm(x.content)

\* A step of an Update that does not end in 200.
UpdateRefused(p) ==
    /\ reqs[p].pc \in {"idle", "updPut"}
    /\ reqs'[p].op = "updateObject"
    /\ reqs'[p].pc = "done"
    /\ reqs'[p].status # 200

\* C18: Update without an id answers 400 without reaching the store; on an
\* id without a record it answers 404 and stores nothing; on an existing id
\* it stores the loaded record with the patch's fields overwritten as given
\* (content included, not encrypted) and the other fields as they were, and
\* answers 200 with that record (500 when the get or the put fails, the
\* table as it was).
C18_UpdateMerges ==
    /\ [](\A p \in Procs :
            (Done(p) /\ reqs[p].op = "updateObject")
            => /\ reqs[p].status = 400 <=> reqs[p].id = 0
               /\ reqs[p].status = 400 => ~reqs[p].failed
               /\ reqs[p].status \in {200, 400, 404, 500}
               /\ reqs[p].status = 500 => reqs[p].failed
               /\ reqs[p].status = 404
                  => (reqs[p].obj = {} /\ GetCommand(table, reqs[p].id) = {})
               /\ reqs[p].status = 200
                  => /\ reqs[p].obj # {}
                     /\ \A o \in reqs[p].obj :
                           /\ o.id = reqs[p].id
                           /\ \E x \in GetCommand(table, o.id) :
                                 /\ reqs[p].item = {x}
                                 /\ DOMAIN x = DOMAIN o
                                 /\ \A f \in DOMAIN o :
                                       x[f] = IF f \in DOMAIN reqs[p].patch
                                              THEN reqs[p].patch[f] ELSE o[f])
    /\ [][\A p \in Procs : UpdateRefused(p) => table' = table]_vars

C18_Witness ==
    \E p \in Procs : \E x \in table :
        /\ Done(p)
        /\ reqs[p].op = "updateObject"
        /\ reqs[p].status = 200
        /\ reqs[p].patch = [content |-> JsTrue]
        /\ x.content = JsTrue
        /\ x.hitCount = 1
        /\ x.type = "toggle"

\* C22: a fetch or toggle that ends in a storage failure (500) leaves the
\* record as it was when the request looked it up: no part of the hit count,
\* lastHit or toggled content remains applied.
C22_FailureLeavesRecord ==
    \A p \in Procs : \A o \in reqs[p].obj :
        (Done(p) /\ ChecksExpiry(reqs[p]) /\ reqs[p].failed)
        => GetCommand(table, o.id) = {o}

\* C23: a fetch of a one-time object writes nothing before its delete: when
\* the delete is the request's next command the record is still as the
\* lookup found it.
C23_NoWriteBeforeDelete ==
    \A p \in Procs : \A o \in reqs[p].obj :
        (reqs[p].pc = "otDel" /\ IsFetch(reqs[p]))
        => GetCommand(table, o.id) = {o}

\* C24: once an object has been read (its lastHit is set) no MFA-required
\* response (403 with requiresTOTP) for it carries the provisioning URI.
C24_NoSecretAfterFirstRead ==
    \A p \in Procs : \A o \in reqs[p].obj :
        (Done(p) /\ IsFetch(reqs[p]) /\ reqs[p].status = 403 /\ reqs[p].requiresTOTP
            /\ o.lastHit # NoHit)
        => reqs[p].totpQR = Undef

\* C25: a request lists or changes a record only when it presents the
\* record's bearer credential: every listing and every Update that answers
\* 200 carries the token of each record it returned or rewrote.
C25_OnlyOwnerReaches ==
    \A p \in Procs : \A o \in reqs[p].obj :
        (Done(p) /\ reqs[p].op \in {"getUserObjects", "updateObject"}
            /\ reqs[p].status = 200)
        => reqs[p].token = o.token

\* C26: every stored record has a type among string, boolean and toggle,
\* and its decrypted content is a boolean when the type is boolean or toggle
\* and a string when the type is string.
C26_ContentTyped ==
    \A x \in table :
        /\ x.type \in {"string", "boolean", "toggle"}
        /\ decryptContent(x.content).t = (IF x.type = "string" THEN "string" ELSE "boolean")

\* A step that starts a listing.
ListingStep(p) == reqs[p].pc = "idle" /\ reqs'[p].op = "getUserObjects"

\* C28: GET /user-objects without an email answers 400; otherwise it
\* returns exactly the stored records whose ownerEmail is the requested
\* email, expired ones included, as they are stored (500 when the query
\* fails), and the step changes no record.
C28_ListByOwner ==
    /\ [](\A p \in Procs :
            (Done(p) /\ reqs[p].op = "getUserObjects")
            => /\ reqs[p].status = 400 <=> Falsy(reqs[p].name)
               /\ reqs[p].status \in {200, 400, 500}
               /\ reqs[p].status = 500 <=> reqs[p].failed
               /\ reqs[p].status = 200
                  => reqs[p].obj = { x \in table : x.ownerEmail = reqs[p].name })
    /\ [][\A p \in Procs : ListingStep(p) => table' = table]_vars

C28_Witness ==
    \E p \in Procs : \E o \in reqs[p].obj : \E x \in table :
        /\ Done(p)
        /\ reqs[p].op = "getUserObjects"
        /\ reqs[p].status = 200
        /\ o.ttl <= reqs[p].tCheck
        /\ o.hitCount = 0
        /\ x.ownerEmail # reqs[p].name
        /\ x \notin reqs[p].obj

\* A stored record is well formed: its content has the encrypted form and
\* decrypts to a boolean, its counter is non-negative and zero exactly while
\* lastHit is absent, and lastHit is an instant that has passed.
WellFormed(x) ==
    /\ x.type \in {"boolean", "toggle"}
    /\ EncryptedForm(x.content)
    /\ decryptContent(x.content).t = "boolean"
    /\ x.hitCount >= 0
    /\ x.hitCount = 0 <=> x.lastHit = NoHit
    /\ x.lastHit # NoHit => (x.lastHit \in Instants /\ x.lastHit <= now)

\* The fields a fetch never writes.
FixedFields(x) ==
    <<x.id, x.name, x.type, x.token, x.ttl, x.createdAt, x.ownerEmail, x.ownerName,
      x.oneTimeAccess, x.totpSecret>>

\* The second write of a fetch of a toggle object succeeds.
ToggleWritten(p) ==
    /\ reqs[p].pc = "putToggle"
    /\ reqs'[p].pc = "done"
    /\ reqs'[p].status = 200

\* C21: under every interleaving of two fetches of one record, each fetch
\* ends in 200, 404, 410 or, only when a repository command failed, 500; a
\* 200 carries the decrypted content and hitCount + 1 of the record the
\* fetch's own lookup found; the table holds at most the one record, well
\* formed, with the fields a fetch does not write as they were; and the
\* second write of a toggle fetch stores the negation of the content it
\* returns with the lookup's hitCount + 1, whatever was written in between
\* (last writer wins).
C21_RaceIsBenign ==
    /\ [](\A p \in Procs :
            (Done(p) /\ IsFetch(reqs[p]))
            => /\ reqs[p].status \in {200, 404, 410, 500}
               /\ reqs[p].status = 500 <=> reqs[p].failed
               /\ \A o \in reqs[p].obj :
                     reqs[p].status = 200
                     => /\ reqs[p].content = decryptContent(o.content)
                        /\ reqs[p].content.t = "boolean"
                        /\ reqs[p].hits = o.hitCount + 1)
    /\ [](Cardinality(table) <= 1 /\ \A x \in table : WellFormed(x))
    /\ [][\A x \in table : \A y \in table' : FixedFields(x) = FixedFields(y)]_vars
    /\ [][\A p \in Procs : \A o \in reqs[p].obj :
            ToggleWritten(p)
            => \E y \in table' :
                  /\ y.id = o.id
                  /\ decryptContent(y.content) = Not(reqs'[p].content)
                  /\ y.hitCount = o.hitCount + 1]_vars

\* Two overlapping fetches of a toggle object that is not one-time have
\* both answered 200 with the same content and the same hits, and the store
\* holds hitCount increased by one and the content negated once.
C21_Witness ==
    \E o \in reqs[1].obj : \E x \in table :
        /\ o.type = "toggle"
        /\ ~o.oneTimeAccess
        /\ reqs[2].obj = {o}
        /\ \A p \in Procs : Done(p) /\ IsFetch(reqs[p]) /\ reqs[p].status = 200
        /\ reqs[1].content = reqs[2].content
        /\ reqs[1].hits = reqs[2].hits
        /\ x.id = o.id
        /\ x.hitCount = o.hitCount + 1
        /\ decryptContent(x.content) = Not(decryptContent(o.content))

\* A stored value from before encryption: a boolean, or a text without a
\* colon.
Legacy(v) == v.t = "boolean" \/ (v.t = "string" /\ \A i \in 1..Len(v.s) : v.s[i] # ":")

\* C27: decryptContent(encryptContent(x)) = x for every string and boolean
\* x; decryptContent of a legacy value (a boolean, or a text without a
\* colon) is that value; decryptContent of a damaged blob is the blob.
C27_CodecRoundTrip ==
    \A p \in Procs :
        (Done(p) /\ reqs[p].op = "decryptContent")
        => /\ \A x \in reqs[p].obj : reqs[p].content = x
           /\ \A v \in reqs[p].item :
                 (reqs[p].obj = {} /\ (Legacy(v) \/ v \notin Contents))
                 => reqs[p].content = v

\* C29: in the local-storage list no two stored objects have the same name.
C29_NamesUnique == \A x \in table : \A y \in table : x.name = y.name => x.id = y.id

\* The fields of a local object that an access does not write.
LocalFixedFields(x) ==
    <<x.id, x.name, x.type, x.token, x.ttl, x.createdAt, x.ownerEmail, x.ownerName>>

\* C30: getObject of the local-storage library returns an object exactly
\* when one with that name and token is stored and its ttl is not below the
\* clock; the object returned has the hit counted once, lastHit set to the
\* time of the call, the content negated when the type is toggle and as it
\* was otherwise, and every other field as stored; it is the object the
\* list then holds (when localStorage rejects the write the list keeps the
\* object as it was); a call that returns null changes nothing.
C30_LocalAccess ==
    \A p \in Procs :
        (Done(p) /\ reqs[p].op = "getObject")
        => /\ reqs[p].code \in {Returned, NullS}
           /\ reqs[p].code = Returned
              <=> (reqs[p].obj # {} /\ \A o \in reqs[p].obj : o.ttl >= reqs[p].tCheck)
           /\ \A o \in reqs[p].obj : o.name = reqs[p].name /\ o.token = reqs[p].token
           /\ reqs[p].code = NullS
              => (reqs[p].item = {} /\ \A o \in reqs[p].obj : o \in table)
           /\ reqs[p].code = Returned
              => \A o \in reqs[p].obj :
                    \E r \in reqs[p].item :
                       /\ reqs[p].item = {r}
                       /\ r.hitCount = o.hitCount + 1
                       /\ r.lastHit \in SecondRead(reqs[p].tCheck)
                       /\ r.content = IF o.type = "toggle" THEN Not(o.content) ELSE o.content
                       /\ r.content.t = o.content.t
                       /\ LocalFixedFields(r) = LocalFixedFields(o)
                       /\ GetCommand(table, o.id) = IF reqs[p].failed THEN {o} ELSE {r}

C30_Witness ==
    \E p \in Procs : \E o \in reqs[p].obj : \E r \in reqs[p].item :
        /\ Done(p)
        /\ reqs[p].op = "getObject"
        /\ reqs[p].code = Returned
        /\ ~reqs[p].failed
        /\ o.type = "toggle"
        /\ o.hitCount = 1
        /\ o.content = JsTrue
        /\ r.content = JsFalse
        /\ r \in table

\* C31: of the overlapping fetches of one one-time object at most one is
\* answered 200 with the content: no two invocations hold a 200 for the
\* same record with oneTimeAccess = true.
C31_OneTimeServedOnce ==
    \A p \in Procs : \A q \in Procs \ {p} :
        \A o \in reqs[p].obj : \A u \in reqs[q].obj :
            (Done(p) /\ Done(q) /\ IsFetch(reqs[p]) /\ IsFetch(reqs[q])
                /\ o.oneTimeAccess /\ u.id = o.id /\ reqs[p].status = 200)
            => reqs[q].status # 200

\* C32: once the record of an issued id has been deleted, no step of any
\* invocation stores a record with that id again.
C32_DeletedStaysDeleted == [][StaysDeleted]_vars

\* C33: every 200 that carries the content of a one-time object comes with
\* the deletion of its record, on the fetches and on POST /toggle.
C33_OneTimeAlwaysConsumed ==
    \A p \in Procs : \A o \in reqs[p].obj :
        (Done(p) /\ ChecksExpiry(reqs[p]) /\ reqs[p].status = 200 /\ o.oneTimeAccess)
        => GetCommand(table, o.id) = {}

\* A step in which invocation p issues a write of a fetch or of POST /toggle.
ReadWrites(p) ==
    /\ reqs[p].pc \in {"putHit", "putToggle", "togglePut"}
    /\ reqs'[p] # reqs[p]

\* C34: a write of a fetch or toggle leaves every field but hitCount,
\* lastHit and content as the record stored just before the write has it,
\* also when an Update of the record has committed since the lookup.
C34_ReadWritesFrame ==
    [][\A p \in Procs :
          ReadWrites(p)
          => \A x \in table : \A y \in table' :
                x.id = y.id => FixedFields(x) = FixedFields(y)]_vars

\* C35: while a record exists its stored hitCount is non-negative and no
\* step of overlapping fetches lowers it.
C35_HitCountMonotone ==
    /\ [](\A x \in table : x.hitCount >= 0)
    /\ [][\A x \in table : \A y \in table' : x.id = y.id => y.hitCount >= x.hitCount]_vars

\* Invocation 1 answered at the entry of the handler, before any route.
AnsweredAtEntry(status) ==
    /\ Done(1)
    /\ reqs[1].op = "handler"
    /\ reqs[1].status = status
    /\ reqs[1].obj = {}
    /\ reqs[1].item = {}
    /\ reqs[1].content = Undefined

\* C36: an OPTIONS request is answered 200 at the entry of the handler,
\* whatever its header and whichever form its event has; any other request
\* whose x-cf-secret header is missing or differs from the secret is
\* answered 403 there; and the step that answers at the entry reads, writes
\* and deletes nothing.
C36_GateBeforeRouting ==
    /\ []((reqs[2].op = "event" /\ ~Free(1))
          => /\ MethodOf(reqs[2]) = "OPTIONS" => AnsweredAtEntry(200)
             /\ (MethodOf(reqs[2]) # "OPTIONS" /\ reqs[2].cfSecretHeader # CF_SECRET)
                => AnsweredAtEntry(403))
    /\ [][(Free(1) /\ reqs'[1].op = "handler") => table' = table]_vars

\* An admin request: GET /admin/objects or POST /admin/cleanup.
IsAdmin(r) == r.op \in {"adminGetAllObjects", "adminCleanup"}

\* C37: an admin request whose adminToken differs from the admin token, a
\* missing one included, is answered 403 by its first step, which leaves
\* the table as it was; its answer carries no record and it has no record
\* to delete.  The 403 is given to no request that has the admin token.
C37_AdminTokenRequired ==
    /\ [](\A p \in Procs :
            (~Free(p) /\ IsAdmin(reqs[p]))
            => /\ reqs[p].name # ADMIN_TOKEN
                  => /\ Done(p)
                     /\ reqs[p].status = 403
                     /\ reqs[p].obj = {}
                     /\ reqs[p].item = {}
               /\ reqs[p].name = ADMIN_TOKEN => reqs[p].status # 403)
    /\ [][\A p \in Procs :
            (Free(p) /\ IsAdmin(reqs'[p]) /\ reqs'[p].name # ADMIN_TOKEN)
            => table' = table]_vars

C37_Witness ==
    \E p \in Procs :
        /\ Done(p)
        /\ reqs[p].op = "adminGetAllObjects"
        /\ reqs[p].name = Undef
        /\ reqs[p].status = 403
        /\ \E x \in table : x.ttl <= reqs[p].tCheck
        /\ \E x \in table : x.ttl > reqs[p].tCheck

\* getActiveObjects() and getExpiredObjects() of the local library, on a
\* list and at an instant.
getActiveObjects(objects, t) == { obj \in objects : obj.ttl > t }

getExpiredObjects(objects, t) == { obj \in objects : obj.ttl <= t }

\* C38: in the local library an object that getObject returns at an
\* instant is one that getActiveObjects lists at that instant, and none
\* that getExpiredObjects (and with it the cleanup) counts as expired then.
C38_ExpiryConsistent ==
    (reqs[1].op = "getObject" /\ reqs[1].code = Returned)
    => /\ reqs[1].obj \subseteq getActiveObjects(reqs[1].obj, reqs[1].tCheck)
       /\ getExpiredObjects(reqs[1].obj, reqs[1].tCheck) = {}

\* C39: the stored admin token is absent or a token for which
\* verifyAdminToken has returned true; the stored value changes to a token
\* only when authenticateAdmin resumes with that token verified, and
\* authenticateAdmin then returns true, and false without storing when the
\* verification failed; a checkAdminAccess that resumes with its token
\* found invalid leaves no stored token and returns
\* {isAdmin: false, token: null}.
C39_StoredTokenVerified ==
    /\ [](table \subseteq lastRead)
    /\ [][\A t \in table' :
            t \notin table
            => \E p \in Procs :
                  /\ reqs[p].op = "authenticateAdmin"
                  /\ reqs[p].pc = "resume"
                  /\ reqs[p].isValid
                  /\ reqs[p].token = t
                  /\ reqs'[p].pc = "done"
                  /\ reqs'[p].success]_vars
    /\ [][\A p \in Procs :
            (reqs[p].pc = "resume" /\ reqs'[p].pc = "done" /\ ~reqs[p].isValid)
            => IF reqs[p].op = "authenticateAdmin"
               THEN table' = table /\ ~reqs'[p].success
               ELSE table' = {} /\ reqs'[p].auth = [isAdmin |-> FALSE, token |-> {}]]_vars

C39_Witness ==
    \E p \in Procs :
        /\ reqs[p].op = "checkAdminAccess"
        /\ reqs[p].pc = "done"
        /\ ~reqs[p].isValid
        /\ reqs[p].token \in lastRead
        /\ reqs[p].token # <<>>
        /\ table = {}

=============================================================================
